---- MODULE Spec2Model ----
(***************************************************************************)
(* ESG portal front end: the profiling wizard (List.js), the event-task    *)
(* board (EventTasks.js), the user management of the DeveloperAdmin panel  *)
(* and the backend's checklist generation as it is documented.             *)
(*                                                                         *)
(* The specifications share the variables:                                 *)
(*   Spec        the profiling wizard and its checklist generation         *)
(*   SpecWizard  the wizard with its completion check and checklist view   *)
(*   SpecSave    value / evidence saving on the event-task board           *)
(*   SpecRoles   the same per role, with the assignment of a task          *)
(*   SpecProgress  loading of the board and its progress cards             *)
(*   SpecFilter  role and assignment filtering of the event-task board     *)
(*   SpecSaveAll, SpecStatus  saving with failing and repeated requests    *)
(*   SpecBusy    the busy flags of the wizard and of the board             *)
(*   SpecUnsaved the filter over tasks that have no submission yet         *)
(*   SpecAssign  the users offered by the assignment modal                 *)
(*   SpecAdmin   the confirmation dialog of the user management            *)
(*   SpecCadence cadence consolidation over the active frameworks          *)
(*   SpecSwitch  the wizard while the selected company changes             *)
(***************************************************************************)
EXTENDS Integers, Sequences, FiniteSets, Bags, TLC

VARIABLES
    \* ---- List.js ----
    profilingQuestions,   \* useState([])     sequence of [id, activatesElement]
    answers,              \* useState({})     question id -> BOOLEAN, partial
    modalState,           \* useState({isOpen:false,...}) : "closed" or the modal title
    hasUpdatePermission,  \* hasPermission('frameworkSelection','update') of the session
    fetchStep,            \* position of the fetchData effect
    finalChecklist,       \* const finalChecklist = generateChecklist() of the last render
    lastRender,           \* history: did the last render drop an element of the one before
    showChecklist,        \* useState(false)
    checklistExists,      \* useState(false)
    isGenerating,         \* useState(false): a save_answers request awaits its response
    lastRequest,          \* history: the save request the last step sent, or "none"
    serverChecklist,      \* backend: the company has a stored checklist
    \* ---- EventTasks.js ----
    user,                 \* prop: [role, id]
    dataEntries,          \* useState([])     sequence of task records
    progressData,         \* useState({ overall: {}, active: {} })
    loading,              \* useState(true)
    showAssignModal,      \* useState(false)
    selectedTaskForAssignment, \* useState(null): the element of the task, 0 for null
    availableUsers,       \* useState([])     the users the assignment modal offers
    assignments,          \* useState(null)
    searchTerm,           \* useState('')
    viewFilter,           \* useState('All')
    assignmentFilter,     \* useState('all')
    entryValues,          \* useState({})     element -> pending value
    entryFiles,           \* useState({})     element -> pending file
    savingEntries,        \* useState({})     element -> BOOLEAN
    autoSaveTimeouts,     \* pending debounce timers with the closure they captured
    inflight,             \* bag of the handler invocations waiting for a response
    lastResponse,         \* history: the outcome of the response this step handled
    \* ---- backend (behind makeAuthenticatedRequest) ----
    server,               \* element -> stored submission
    serverAssignments,    \* stored category and element assignments
    \* ---- DeveloperAdmin panel (UserManagementSection) ----
    users,                \* useState([])     listed user id -> "active" | "inactive"
    showConfirmDialog,    \* useState(false)
    confirmAction,        \* useState(null)   [action, confirmation, userConfirmed]
    confirmUser,          \* useState(null)   id of the user of the dialog, 0 for null
    confirmInput,         \* text of the dialog's uncontrolled input, "" when not rendered
    typedFor,             \* history: the user whose dialog the text was typed in
    lastUserAction,       \* history: the request this step POSTed, NoRequest if none
    serverUsers,          \* backend: the users of the system
    \* ---- backend ProfilingService (core/services.py, documented in part_001) ----
    frameworkElements,    \* framework -> element -> the cadence it states, "none" if not required
    activeFrameworks,     \* Company.active_frameworks
    backendChecklist,     \* the checklist generate_checklist produced
    \* ---- List.js: the selected company ----
    companyId,            \* selectedCompany?.id
    staleFetchStep        \* position of the fetchData effect started for the company before

varsView == <<showChecklist, checklistExists, isGenerating, serverChecklist>>
varsList == <<profilingQuestions, answers, modalState, hasUpdatePermission,
              fetchStep, finalChecklist, lastRender, lastRequest, varsView>>
varsFilter == <<user, assignments, searchTerm, viewFilter, assignmentFilter,
                serverAssignments>>
varsSave == <<entryValues, entryFiles, savingEntries, autoSaveTimeouts,
              inflight, lastResponse, server>>
varsCards == <<progressData, showAssignModal, selectedTaskForAssignment,
               availableUsers>>
varsTasks == <<varsFilter, varsSave, dataEntries, loading, varsCards>>
varsAdmin == <<users, showConfirmDialog, confirmAction, confirmUser, confirmInput,
               typedFor, lastUserAction, serverUsers>>
\* the variables of the pages other than the wizard and the board
varsProfiling == <<frameworkElements, activeFrameworks, backendChecklist>>
varsCompany == <<companyId, staleFetchStep>>
varsOther == <<varsAdmin, varsProfiling, varsCompany>>
vars == <<varsList, varsTasks, varsOther>>

(***************************************************************************)
(* Bounds of the model.                                                    *)
(***************************************************************************)
\* longest question list, apart from the shipped nine, the backend delivers
MaxQuestions == 3
\* largest value typed into a data-entry input; 0 stands for the empty input
MaxValue == 1
\* most requests of the event-task board waiting for their response at once
MaxInflight == 2

(***************************************************************************)
(* Generic helpers.                                                        *)
(***************************************************************************)
Front(s) == SubSeq(s, 1, Len(s) - 1)
Last(s) == s[Len(s)]
Range(s) == {s[i] : i \in 1..Len(s)}
Count(s, x) == Cardinality({i \in 1..Len(s) : s[i] = x})
Ids(s) == [i \in 1..Len(s) |-> s[i].id]
EmptyMap == [x \in {} |-> TRUE]

\* all sequences without repetition of length 1..n over the set S
RECURSIVE SeqsUpTo(_, _)
SeqsUpTo(S, n) ==
    IF n = 0 THEN {<<>>}
    ELSE LET shorter == SeqsUpTo(S, n - 1)
         IN  shorter \cup {Append(s, x) : s \in {t \in shorter : Len(t) = n - 1},
                                          x \in S}

(***************************************************************************)
(* Element catalog (List.js 254-283).  An element is [id, category].       *)
(***************************************************************************)
mustHaveElements == <<
    [id |-> "electricity",              category |-> "Environmental"],
    [id |-> "water",                    category |-> "Environmental"],
    [id |-> "waste_landfill",           category |-> "Environmental"],
    [id |-> "sustainability_policy",    category |-> "Social"],
    [id |-> "sustainability_personnel", category |-> "Social"],
    [id |-> "employee_training",        category |-> "Social"],
    [id |-> "guest_education",          category |-> "Social"],
    [id |-> "community_initiatives",    category |-> "Social"],
    [id |-> "government_compliance",    category |-> "Governance"],
    [id |-> "action_plan",              category |-> "Governance"],
    [id |-> "carbon_footprint",         category |-> "Environmental"],
    [id |-> "health_safety",            category |-> "Social"],
    [id |-> "anti_corruption",          category |-> "Governance"],
    [id |-> "risk_management",          category |-> "Governance"] >>

conditionalElements ==
    [generator_fuel |-> [id |-> "generator_fuel", category |-> "Environmental"],
     vehicle_fuel |-> [id |-> "vehicle_fuel", category |-> "Environmental"],
     lpg_consumption |-> [id |-> "lpg_consumption", category |-> "Environmental"],
     green_events |-> [id |-> "green_events", category |-> "Social"],
     food_sourcing |-> [id |-> "food_sourcing", category |-> "Environmental"],
     green_spaces |-> [id |-> "green_spaces", category |-> "Environmental"],
     renewable_energy_usage |->
         [id |-> "renewable_energy_usage", category |-> "Environmental"],
     environmental_management_system |->
         [id |-> "environmental_management_system", category |-> "Governance"],
     board_composition |-> [id |-> "board_composition", category |-> "Governance"]]

\* the nine questions shipped with the application (List.js 197-252)
fallbackQuestions == <<
    [id |-> "backup_generators",  activatesElement |-> "generator_fuel"],
    [id |-> "company_vehicles",   activatesElement |-> "vehicle_fuel"],
    [id |-> "lpg_usage",          activatesElement |-> "lpg_consumption"],
    [id |-> "event_facilities",   activatesElement |-> "green_events"],
    [id |-> "food_service",       activatesElement |-> "food_sourcing"],
    [id |-> "outdoor_spaces",     activatesElement |-> "green_spaces"],
    [id |-> "renewable_energy",   activatesElement |-> "renewable_energy_usage"],
    [id |-> "environmental_certification",
                      activatesElement |-> "environmental_management_system"],
    [id |-> "listed_company",     activatesElement |-> "board_composition"] >>

\* Questions a backend may deliver (List.js 67-75 copies question_id and
\* activates_element as they come): two of them activate the same element, one
\* names an element that is in no catalog, one names a must-have element.
QuestionPool == {
    [id |-> "backup_generators", activatesElement |-> "generator_fuel"],
    [id |-> "standby_generators", activatesElement |-> "generator_fuel"],
    [id |-> "event_facilities",  activatesElement |-> "green_events"],
    [id |-> "retired_question",  activatesElement |-> "unknown_element"],
    [id |-> "grid_power",        activatesElement |-> "electricity"] }

\* the questions of the company the completion check is followed for
WizardIds == {"backup_generators", "event_facilities", "retired_question"}

DistinctIds(qs) == \A i, j \in 1..Len(qs) : qs[i].id = qs[j].id => i = j

BackendQuestionLists ==
    {fallbackQuestions} \cup
    {qs \in SeqsUpTo(QuestionPool, MaxQuestions) : DistinctIds(qs)}

QuestionIds(qs) == {qs[i].id : i \in 1..Len(qs)}

\* every answers object the backend holds at load over the ids of a question
\* list: answers to at most MaxQuestions of its questions
AnswerMaps(qs) ==
    UNION {[D -> BOOLEAN] :
              D \in {X \in SUBSET QuestionIds(qs) : Cardinality(X) <= MaxQuestions}}

\* the answers objects of GET profile_answers: the company's stored answers,
\* also to questions that are not in its current question list
StoredAnswerMaps(qs) ==
    AnswerMaps(qs) \cup
    (IF QuestionIds(qs) \subseteq WizardIds
     THEN UNION {[D -> BOOLEAN] : D \in SUBSET WizardIds} ELSE {})

(***************************************************************************)
(* List.js: derived values of a render.                                    *)
(***************************************************************************)
\* List.js 370-372
allQuestionsAnswered(qs, ans) ==
    Len(qs) > 0 /\ \A i \in 1..Len(qs) : qs[i].id \in DOMAIN ans

\* String.prototype.localeCompare on the category names: alphabetical, decided
\* here by the position of the first letter in the alphabet
Initial == [Environmental |-> 5, Governance |-> 7, Social |-> 19]
localeCompare(a, b) ==
    IF a = b THEN 0 ELSE IF Initial[a] < Initial[b] THEN 0 - 1 ELSE 1

\* List.js 458: the comparator handed to sort
compareByCategory(a, b) == localeCompare(a.category, b.category)

\* Array.prototype.sort is stable (ECMAScript 2019): an element goes behind
\* every element that does not compare greater
RECURSIVE SortInsertUnstable(_, _)
SortInsertUnstable(sorted, x) ==
    IF sorted = <<>> THEN <<x>>
    ELSE IF compareByCategory(Last(sorted), x) < 0 THEN Append(sorted, x)
    ELSE Append(SortInsertUnstable(Front(sorted), x), Last(sorted))

RECURSIVE SortInsert(_, _)
SortInsert(sorted, x) ==
    IF sorted = <<>> THEN <<x>>
    ELSE IF compareByCategory(Last(sorted), x) <= 0 THEN Append(sorted, x)
    ELSE Append(SortInsert(Front(sorted), x), Last(sorted))

RECURSIVE sort(_)
sort(s) == IF s = <<>> THEN <<>> ELSE SortInsert(sort(Front(s)), Last(s))

\* List.js 452: the test that lets a question push its element
ActivatesAnswered(q, ans) ==
    q.id \in DOMAIN ans /\ q.activatesElement \in DOMAIN conditionalElements

Activates(q, ans) ==
    /\ q.id \in DOMAIN ans
    /\ ans[q.id] = TRUE
    /\ q.activatesElement \in DOMAIN conditionalElements

\* List.js 451-455: the forEach that pushes onto the checklist
RECURSIVE pushActivated(_, _, _)
pushActivated(checklist, qs, ans) ==
    IF qs = <<>> THEN checklist
    ELSE pushActivated(
             IF Activates(Head(qs), ans)
             THEN Append(checklist, conditionalElements[Head(qs).activatesElement])
             ELSE checklist,
             Tail(qs), ans)

Undefined == [defined |-> FALSE, items |-> <<>>]

\* a generation that keeps pushing onto the list of the previous generation
generateChecklistCumulative(qs, ans) ==
    IF ~allQuestionsAnswered(qs, ans) THEN Undefined
    ELSE [defined |-> TRUE,
          items |-> sort(pushActivated(
                        IF finalChecklist.defined THEN finalChecklist.items
                        ELSE mustHaveElements, qs, ans))]

\* List.js 444-459
generateChecklist(qs, ans) ==
    IF ~allQuestionsAnswered(qs, ans) THEN Undefined
    ELSE [defined |-> TRUE,
          items |-> sort(pushActivated(mustHaveElements, qs, ans))]

\* List.js 461: every state change re-renders the component.  lastRender notes
\* whether an element of the checklist of the render before is gone ("dropped").
Render ==
    /\ finalChecklist' = generateChecklist(profilingQuestions', answers')
    /\ lastRender' =
           IF /\ finalChecklist.defined
              /\ finalChecklist'.defined
              /\ \E x \in Range(finalChecklist.items) :
                     x \notin Range(finalChecklist'.items)
           THEN "dropped"
           ELSE "kept"

(***************************************************************************)
(* List.js: what is on the page.                                           *)
(***************************************************************************)
\* List.js 481: the checklist view is returned instead of the questions
checklistViewUnguarded == showChecklist

checklistView ==
    showChecklist /\ allQuestionsAnswered(profilingQuestions, answers)

\* List.js 618 and 629: neither the spinner nor "No Questions Available"
questionsShown ==
    /\ fetchStep = "idle"
    /\ Len(profilingQuestions) > 0
    /\ ~checklistView

\* List.js 180: the test checkWizardCompletion makes on the two responses
wizardCompleted(answersData, questionsData) ==
    /\ Cardinality(DOMAIN answersData) > 0
    /\ Cardinality(DOMAIN answersData) >= Len(questionsData)

\* outcomes of a save_profile_answer request (List.js 308-320 and 351-367)
SaveStatuses == {"ok", "forbidden", "failed"}

(***************************************************************************)
(* List.js: operations.                                                    *)
(***************************************************************************)
\* List.js 88-108: the effect of selecting a company resets and starts loading
fetchData ==
    /\ fetchStep = "idle"
    /\ answers' = EmptyMap
    /\ showChecklist' = FALSE
    /\ profilingQuestions' = <<>>
    /\ fetchStep' = "questions"
    /\ lastRequest' = "none"
    /\ UNCHANGED <<modalState, hasUpdatePermission, checklistExists,
                   isGenerating, serverChecklist>>
    /\ UNCHANGED <<varsTasks, varsOther>>
    /\ Render

\* List.js 51-86: the response to the questions request; an empty list, a
\* non-OK response and a throw leave the questions as they are
fetchProfilingQuestions(questions) ==
    /\ fetchStep = "questions"
    /\ profilingQuestions' = IF Len(questions) > 0 THEN questions
                             ELSE profilingQuestions
    /\ fetchStep' = "answers"
    /\ lastRequest' = "none"
    /\ UNCHANGED <<answers, modalState, hasUpdatePermission, varsView>>
    /\ UNCHANGED <<varsTasks, varsOther>>
    /\ Render

\* List.js 111-141: the response to the answers request
fetchExistingAnswers(answersMap, ok) ==
    /\ fetchStep = "answers"
    /\ answers' = IF ok THEN answersMap ELSE answers
    /\ fetchStep' = "checklist"
    /\ lastRequest' = "none"
    /\ UNCHANGED <<profilingQuestions, modalState, hasUpdatePermission, varsView>>
    /\ UNCHANGED <<varsTasks, varsOther>>
    /\ Render

\* List.js 144-165: the response to the checklist request of the effect
checkChecklistExists(ok) ==
    /\ fetchStep = "checklist"
    /\ checklistExists' = IF ok THEN serverChecklist ELSE FALSE
    /\ fetchStep' = "completion"
    /\ lastRequest' = "none"
    /\ UNCHANGED <<profilingQuestions, answers, modalState, hasUpdatePermission,
                   showChecklist, isGenerating, serverChecklist>>
    /\ UNCHANGED <<varsTasks, varsOther>>
    /\ Render

\* List.js 168-194 and 103-104: the completion check on the two responses, its
\* own checklist request, and the end of the effect
checkWizardCompletion(answersData, questionsData, ok) ==
    /\ fetchStep = "completion"
    /\ IF ok /\ wizardCompleted(answersData, questionsData)
       THEN \E listed \in BOOLEAN :
                /\ checklistExists' = IF listed THEN serverChecklist ELSE FALSE
                /\ showChecklist' = IF checklistExists' THEN TRUE ELSE showChecklist
       ELSE UNCHANGED <<checklistExists, showChecklist>>
    /\ fetchStep' = "idle"
    /\ lastRequest' = "none"
    /\ UNCHANGED <<profilingQuestions, answers, modalState, hasUpdatePermission,
                   isGenerating, serverChecklist>>
    /\ UNCHANGED <<varsTasks, varsOther>>
    /\ Render

\* List.js 292-295: { ...answers, [questionId]: answer }
newAnswers(ans, questionId, answer) ==
    [q \in DOMAIN ans \cup {questionId} |->
        IF q = questionId THEN answer ELSE ans[q]]

\* List.js 332-335: allAnswers, an object built from the question list alone
allAnswers(qs, answer) == [q \in QuestionIds(qs) |-> answer]

\* a single answer written without looking at the permission
handleAnswerChangeUnchecked(questionId, answer, status) ==
    /\ questionsShown
    /\ answers' = newAnswers(answers, questionId, answer)
    /\ lastRequest' = "save_profile_answer"
    /\ modalState' = IF status = "forbidden"
                     THEN "Permission Denied" ELSE modalState
    /\ UNCHANGED <<profilingQuestions, hasUpdatePermission, fetchStep, varsView>>
    /\ UNCHANGED <<varsTasks, varsOther>>
    /\ Render

\* List.js 285-324; status is the outcome of the save request the handler sends
handleAnswerChange(questionId, answer, status) ==
    /\ questionsShown
    /\ IF ~hasUpdatePermission
       THEN /\ modalState' = "Permission Denied"
            /\ lastRequest' = "none"
            /\ UNCHANGED answers
       ELSE /\ answers' = newAnswers(answers, questionId, answer)
            /\ lastRequest' = "save_profile_answer"
            /\ modalState' = IF status = "forbidden"
                             THEN "Permission Denied" ELSE modalState
    /\ UNCHANGED <<profilingQuestions, hasUpdatePermission, fetchStep, varsView>>
    /\ UNCHANGED <<varsTasks, varsOther>>
    /\ Render

\* a bulk answer that fills in the unanswered questions only
handleAnswerAllUnanswered(answer, status) ==
    /\ questionsShown
    /\ IF ~hasUpdatePermission
       THEN /\ modalState' = "Permission Denied"
            /\ lastRequest' = "none"
            /\ UNCHANGED answers
       ELSE /\ answers' = [q \in DOMAIN answers \cup QuestionIds(profilingQuestions) |->
                              IF q \in DOMAIN answers THEN answers[q] ELSE answer]
            /\ lastRequest' = "save_profile_answer"
            /\ modalState' = IF status = "forbidden"
                             THEN "Permission Denied" ELSE modalState
    /\ UNCHANGED <<profilingQuestions, hasUpdatePermission, fetchStep, varsView>>
    /\ UNCHANGED <<varsTasks, varsOther>>
    /\ Render

\* List.js 326-368; status is "forbidden" when a response has status 403
handleAnswerAll(answer, status) ==
    /\ questionsShown
    /\ IF ~hasUpdatePermission
       THEN /\ modalState' = "Permission Denied"
            /\ lastRequest' = "none"
            /\ UNCHANGED answers
       ELSE /\ answers' = allAnswers(profilingQuestions, answer)
            /\ lastRequest' = "save_profile_answer"
            /\ modalState' = IF status = "forbidden"
                             THEN "Permission Denied" ELSE modalState
    /\ UNCHANGED <<profilingQuestions, hasUpdatePermission, fetchStep, varsView>>
    /\ UNCHANGED <<varsTasks, varsOther>>
    /\ Render

\* List.js 41-48
closeModal ==
    /\ modalState # "closed"
    /\ modalState' = "closed"
    /\ lastRequest' = "none"
    /\ UNCHANGED <<profilingQuestions, answers, hasUpdatePermission, fetchStep,
                   varsView>>
    /\ UNCHANGED <<varsTasks, varsOther>>
    /\ Render

\* List.js 762-781 and 389-392: the Generate Checklist button up to its request
saveAnswersAndGenerateChecklist ==
    /\ questionsShown
    /\ allQuestionsAnswered(profilingQuestions, answers)
    /\ hasUpdatePermission
    /\ ~checklistExists
    /\ ~isGenerating
    /\ IF ~allQuestionsAnswered(profilingQuestions, answers)
       THEN UNCHANGED <<isGenerating, lastRequest>>
       ELSE /\ isGenerating' = TRUE
            /\ lastRequest' = "save_answers"
    /\ UNCHANGED <<profilingQuestions, answers, modalState, hasUpdatePermission,
                   fetchStep, showChecklist, checklistExists, serverChecklist>>
    /\ UNCHANGED <<varsTasks, varsOther>>
    /\ Render

\* List.js 404-441 and 773-779: the responses to save_answers and to the
\* checklist request that follows it
saveAnswersResponse(saved, listed) ==
    /\ isGenerating
    /\ serverChecklist' = IF saved THEN TRUE ELSE serverChecklist
    /\ IF saved /\ listed
       THEN /\ checklistExists' = TRUE
            /\ showChecklist' = TRUE
            /\ UNCHANGED modalState
       ELSE /\ modalState' = "Generation Failed"
            /\ UNCHANGED <<checklistExists, showChecklist>>
    /\ isGenerating' = FALSE
    /\ lastRequest' = "none"
    /\ UNCHANGED <<profilingQuestions, answers, hasUpdatePermission, fetchStep>>
    /\ UNCHANGED <<varsTasks, varsOther>>
    /\ Render

\* List.js 815-822 and 834-841: the View Checklist buttons
viewChecklist ==
    /\ questionsShown
    /\ checklistExists
    /\ \/ ~hasUpdatePermission
       \/ allQuestionsAnswered(profilingQuestions, answers) /\ ~showChecklist
    /\ showChecklist' = TRUE
    /\ lastRequest' = "none"
    /\ UNCHANGED <<profilingQuestions, answers, modalState, hasUpdatePermission,
                   fetchStep, checklistExists, isGenerating, serverChecklist>>
    /\ UNCHANGED <<varsTasks, varsOther>>
    /\ Render

\* List.js 578-585: Back to Questions, with the response to its checklist request
backToQuestions(ok) ==
    /\ fetchStep = "idle"
    /\ checklistView
    /\ showChecklist' = FALSE
    /\ checklistExists' = IF ok THEN serverChecklist ELSE FALSE
    /\ lastRequest' = "none"
    /\ UNCHANGED <<profilingQuestions, answers, modalState, hasUpdatePermission,
                   fetchStep, isGenerating, serverChecklist>>
    /\ UNCHANGED <<varsTasks, varsOther>>
    /\ Render

(***************************************************************************)
(* EventTasks.js: users, tasks and the backend behind the requests.        *)
(***************************************************************************)
Roles == {"super_user", "admin", "site_manager", "uploader", "viewer",
          "meter_manager"}
UserIds == {1, 2}
Users == [role : Roles, id : UserIds]

\* EventTasks.js 31-35
canFullAccess(u) == u.role \in {"super_user", "admin"}
canReviewAndLimitedApproval(u) == u.role \in {"site_manager"}
canEditAssignedTasks(u) == u.role \in {"uploader"}
isViewOnly(u) == u.role \in {"viewer"}
isMeterDataOnly(u) == u.role \in {"meter_manager"}

\* EventTasks.js 813 and 864: the condition under which the inputs are rendered
canEditInputs(u) ==
    /\ canFullAccess(u) \/ canEditAssignedTasks(u) \/ canReviewAndLimitedApproval(u)
    /\ ~isViewOnly(u)
    /\ ~isMeterDataOnly(u)

\* The event tasks of the company as the backend knows them: the element, its
\* category and the text the search box is matched against.
TaskCatalog == <<
    [element_id |-> 1, element_category |-> "Environmental",
     name |-> "Generator Fuel"],
    [element_id |-> 2, element_category |-> "Environmental",
     name |-> "LPG Usage"],
    [element_id |-> 3, element_category |-> "Social",
     name |-> "Green Events"] >>
Elements == {TaskCatalog[i].element_id : i \in 1..Len(TaskCatalog)}
TaskCategories == {TaskCatalog[i].element_category : i \in 1..Len(TaskCatalog)}
CatalogOf(e) == CHOOSE t \in Range(TaskCatalog) : t.element_id = e

\* the submission id the backend gives the submission of element e; 0 stands for
\* the undefined id of a task that has no submission yet
NoId == 0
SubmissionId(e) == 100 + e

NoFile == "null"
Files == {"evidence.pdf"}

\* recomputeStatus(hasValue, hasEvidence, evidenceRequired)
recomputeStatus(hasValue, hasEvidence, evidenceRequired) ==
    IF hasValue /\ (hasEvidence \/ ~evidenceRequired) THEN "complete"
    ELSE IF hasValue \/ hasEvidence THEN "partial"
    ELSE "missing"

\* every event task asks for a value and an evidence file (EventTasks.js 803-906)
evidenceRequired(e) == TRUE

NoUser == 0
NoAssignments == [category_assignments |-> [c \in TaskCategories |-> NoUser],
                  element_assignments |-> [e \in Elements |-> NoUser]]

\* GET /api/data-collection/event_tasks/: data.tasks
eventTasks(srv, asg) ==
    [i \in 1..Len(TaskCatalog) |->
        LET t == TaskCatalog[i]
            sub == srv[t.element_id]
        IN  [element_id |-> t.element_id,
             element_category |-> t.element_category,
             name |-> t.name,
             id |-> sub.id,
             value |-> sub.value,
             evidence_file |-> sub.evidence_file,
             status |-> recomputeStatus(sub.value # 0, sub.evidence_file # NoFile,
                                        evidenceRequired(t.element_id)),
             assignedTo |-> asg.element_assignments[t.element_id]]]

\* progressPercent = round(100 * completed / total), 0 when total = 0
progressPercent(completed, total) ==
    IF total = 0 THEN 0 ELSE (200 * completed + total) \div (2 * total)

inScope(tasks, scope) == SelectSeq(tasks, LAMBDA t : t.element_id \in scope)
completedOf(tasks) == Len(SelectSeq(tasks, LAMBDA t : t.status = "complete"))
dataEntryOf(tasks) == Len(SelectSeq(tasks, LAMBDA t : t.value # 0))
evidenceOf(tasks) == Len(SelectSeq(tasks, LAMBDA t : t.evidence_file # NoFile))

\* a percentage that adds the tasks with a value and the tasks with evidence
\* over the number of tasks
computeProgressPerField(tasks) ==
    [total |-> Len(tasks),
     completed |-> completedOf(tasks),
     progressPercent |-> progressPercent(dataEntryOf(tasks) + evidenceOf(tasks),
                                         Len(tasks))]

\* computeProgress(tasks) -> {total, completed, progressPercent}
computeProgress(tasks) ==
    [total |-> Len(tasks),
     completed |-> completedOf(tasks),
     progressPercent |-> progressPercent(completedOf(tasks), Len(tasks))]

\* `x || 0` of a field of an object that may not have it
orZero(obj, field) == IF field \in DOMAIN obj THEN obj[field] ELSE 0

\* GET /api/data-collection/event_tasks/: the progress fields of the response,
\* as setProgressData stores them (EventTasks.js 61-73)
eventTasksProgress(srv, asg, active) ==
    LET data == [overall |-> computeProgress(eventTasks(srv, asg)),
                 active |-> computeProgress(inScope(eventTasks(srv, asg), active))]
    IN  [overall |-> [total_tasks |-> orZero(data.overall, "total"),
                      completed_tasks |-> orZero(data.overall, "completed"),
                      overall_progress |-> orZero(data.overall, "progressPercent")],
         active |-> [active_tasks |-> orZero(data.active, "total"),
                     active_completed |-> orZero(data.active, "completed"),
                     active_progress |-> orZero(data.active, "progressPercent")]]

\* EventTasks.js 602 and 634: Math.round(progress || 0), the percentage shown
overallProgressShown == orZero(progressData.overall, "overall_progress")
activeProgressShown == orZero(progressData.active, "active_progress")

(***************************************************************************)
(* EventTasks.js: the filtered task list.                                  *)
(***************************************************************************)
SearchTerms == {"", "fuel"}

\* String.prototype.includes on the lower-cased name, category and event type
Includes == {<<"Generator Fuel", "fuel">>}
matchesSearch(entry, term) ==
    \/ <<entry.name, term>> \in Includes
    \/ <<entry.element_category, term>> \in Includes

\* EventTasks.js 153-173
applyFiltersAndSearch(entries, term, view) ==
    LET searched == IF term # ""
                    THEN LET hit(x) == matchesSearch(x, term) IN SelectSeq(entries, hit)
                    ELSE entries
        wanted == CASE view = "Missing" -> "missing"
                    [] view = "Partial" -> "partial"
                    [] view = "Complete" -> "complete"
                    [] OTHER -> "any"
    IN  IF wanted = "any" THEN searched
        ELSE LET has(x) == x.status = wanted IN SelectSeq(searched, has)

\* EventTasks.js 180: the roles the assignment filter is applied to
RestrictedRolesAndAdmin == {"meter_manager", "uploader", "admin", "super_user"}

RestrictedRoles == {"meter_manager", "uploader"}

\* Object.entries of an assignment object: the keys that carry an assignment.
\* Category names come in the order the backend wrote them, element ids (integer
\* keys) in ascending order.
CategoryKeys == <<"Environmental", "Social">>
ElementKeys == <<1, 2, 3>>

\* EventTasks.js 183-190
RECURSIVE categoryTasks(_, _, _, _)
categoryTasks(keys, asg, u, filtered) ==
    IF keys = <<>> THEN <<>>
    ELSE LET c == Head(keys)
             inCategory(t) == t.element_category = c
         IN  (IF asg.category_assignments[c] # NoUser
                 /\ asg.category_assignments[c] = u.id
              THEN SelectSeq(filtered, inCategory) ELSE <<>>)
             \o categoryTasks(Tail(keys), asg, u, filtered)

\* EventTasks.js 198-202
RECURSIVE pushNew(_, _)
pushNew(acc, tasks) ==
    IF tasks = <<>> THEN acc
    ELSE pushNew(IF \E i \in 1..Len(acc) : acc[i].id = Head(tasks).id
                 THEN acc ELSE Append(acc, Head(tasks)),
                 Tail(tasks))

\* EventTasks.js 192-204
RECURSIVE elementTasks(_, _, _, _, _)
elementTasks(acc, keys, asg, u, filtered) ==
    IF keys = <<>> THEN acc
    ELSE LET e == Head(keys)
             isElement(t) == t.element_id = e
         IN  elementTasks(
                 IF asg.element_assignments[e] # NoUser
                    /\ asg.element_assignments[e] = u.id
                 THEN pushNew(acc, SelectSeq(filtered, isElement)) ELSE acc,
                 Tail(keys), asg, u, filtered)

\* EventTasks.js 176-216
filteredEntriesOf(entries, u, asg, term, view, assigned) ==
    LET filtered == applyFiltersAndSearch(entries, term, view)
        mine == IF u.role \in RestrictedRoles /\ asg.loaded
                THEN elementTasks(categoryTasks(CategoryKeys, asg, u, filtered),
                                  ElementKeys, asg, u, filtered)
                ELSE filtered
        isAssigned(t) == t.assignedTo # NoUser
        isUnassigned(t) == t.assignedTo = NoUser
    IN  CASE assigned = "assigned" -> SelectSeq(mine, isAssigned)
          [] assigned = "unassigned" -> SelectSeq(mine, isUnassigned)
          [] OTHER -> mine

filteredEntries ==
    filteredEntriesOf(dataEntries, user, assignments, searchTerm, viewFilter,
                      assignmentFilter)

\* EventTasks.js 564 and 701-727: what the board shows
visibleTasks == IF loading THEN <<>> ELSE filteredEntries

(***************************************************************************)
(* EventTasks.js: requests and the backend's side of them.                 *)
(***************************************************************************)
Values == 0..MaxValue

Put(m, k, v) == [x \in DOMAIN m \cup {k} |-> IF x = k THEN v ELSE m[x]]
Delete(m, k) == [x \in DOMAIN m \ {k} |-> m[x]]

\* a handler invocation that waits for a response, with the arguments it holds
Request(op, e, entryId, value, file) ==
    [op |-> op, e |-> e, entryId |-> entryId, value |-> value, file |-> file]

\* dataEntries.find(e => e.element_id === entryElementId)?.id
entryIdOf(entries, e) ==
    IF \E i \in 1..Len(entries) : entries[i].element_id = e
    THEN (CHOOSE t \in Range(entries) : t.element_id = e).id
    ELSE NoId

NoSubmission == [id |-> NoId, value |-> 0, evidence_file |-> NoFile]

\* The backend's side of saveDataEntry (EventTasks.js 219-259): PATCH of the
\* submission, or POST of a new one for the element; the value field is always
\* sent, the evidence file only when there is one.
storeEntry(srv, e, value, file) ==
    [srv EXCEPT ![e] = [id |-> SubmissionId(e),
                        value |-> value,
                        evidence_file |-> IF file # NoFile THEN file
                                          ELSE srv[e].evidence_file]]

\* The backend's side of remove_evidence (EventTasks.js 403-409)
removeEvidence(srv, e) == [srv EXCEPT ![e].evidence_file = NoFile]

\* prev.map(entry => entry.element_id === entryElementId ? change(entry) : entry)
mapEntry(entries, e, change) ==
    [i \in 1..Len(entries) |->
        IF entries[i].element_id = e THEN change[entries[i]] ELSE entries[i]]

\* EventTasks.js 320-324 and 451-455
markCleared(entry) == [entry EXCEPT !.status = "missing", !.value = 0]

\* a saved value that counts as complete only when an administrator saved it
markSavedByRole(entry, value) ==
    [entry EXCEPT !.status = IF value # 0 /\ entry.evidence_file # NoFile
                                /\ canFullAccess(user)
                             THEN "complete" ELSE "partial",
                  !.value = IF value # 0 THEN value ELSE entry.value]

\* EventTasks.js 356-360
markSaved(entry, value) ==
    [entry EXCEPT !.status = IF value # 0 /\ entry.evidence_file # NoFile
                             THEN "complete" ELSE "partial",
                  !.value = IF value # 0 THEN value ELSE entry.value]

\* EventTasks.js 415-419
markFileCleared(entry) ==
    [entry EXCEPT !.status = IF entry.value # 0 THEN "partial" ELSE "missing",
                  !.evidence_file = NoFile]

entryOf(e) == CHOOSE t \in Range(dataEntries) : t.element_id = e
isVisible(e) == \E i \in 1..Len(visibleTasks) : visibleTasks[i].element_id = e

\* EventTasks.js 816: what the input of the task shows
displayedValue(e) ==
    IF e \in DOMAIN entryValues THEN entryValues[e] ELSE entryOf(e).value

(***************************************************************************)
(* EventTasks.js: saving values and evidence.                              *)
(***************************************************************************)
\* EventTasks.js 308-313 and 337: handleAutoSave up to its request.  seen is
\* savingEntries[e] of the render whose closure makes the call.
handleAutoSave(entryId, e, value, file, seen) ==
    IF seen
    THEN UNCHANGED <<savingEntries, inflight>>
    ELSE /\ BagCardinality(inflight) < MaxInflight
         /\ savingEntries' = [savingEntries EXCEPT ![e] = TRUE]
         /\ inflight' = inflight (+) SetToBag({
                Request(IF value = 0 /\ file = NoFile THEN "clear" ELSE "save",
                        e, entryId, value, file)})

\* EventTasks.js 274-294
handleValueChange(e, value) ==
    /\ canEditInputs(user)
    /\ isVisible(e)
    /\ value # displayedValue(e)
    /\ entryValues' = Put(entryValues, e, value)
    /\ autoSaveTimeouts' = Put(autoSaveTimeouts, e,
           [entryId |-> entryIdOf(dataEntries, e),
            value |-> value,
            file |-> IF e \in DOMAIN entryFiles THEN entryFiles[e] ELSE NoFile,
            seen |-> savingEntries[e]])
    /\ lastResponse' = "none"
    /\ UNCHANGED <<entryFiles, savingEntries, inflight, server, dataEntries,
                   loading, varsFilter, varsList, varsCards, varsOther>>

\* EventTasks.js 284-288: the debounce timer of element e fires
autoSaveTimeout(e) ==
    /\ e \in DOMAIN autoSaveTimeouts
    /\ LET c == autoSaveTimeouts[e]
       IN  handleAutoSave(c.entryId, e, c.value, c.file, c.seen)
    /\ autoSaveTimeouts' = Delete(autoSaveTimeouts, e)
    /\ lastResponse' = "none"
    /\ UNCHANGED <<entryValues, entryFiles, server, dataEntries, loading,
                   varsFilter, varsList, varsCards, varsOther>>

\* EventTasks.js 297-305
handleFileChange(e, file) ==
    /\ canEditInputs(user)
    /\ isVisible(e)
    /\ entryFiles' = Put(entryFiles, e, file)
    /\ handleAutoSave(entryIdOf(dataEntries, e), e,
                      IF e \in DOMAIN entryValues THEN entryValues[e] ELSE 0,
                      file, savingEntries[e])
    /\ lastResponse' = "none"
    /\ UNCHANGED <<entryValues, autoSaveTimeouts, server, dataEntries, loading,
                   varsFilter, varsList, varsCards, varsOther>>

\* EventTasks.js 314-334: the response to the request that clears the entry
clearResponse(req, ok) ==
    /\ BagIn(req, inflight)
    /\ req.op = "clear"
    /\ LET r == req
       IN  /\ IF ok
              THEN /\ server' = storeEntry(server, r.e, 0, NoFile)
                   /\ dataEntries' = mapEntry(dataEntries, r.e,
                                      [entry \in Range(dataEntries) |-> markCleared(entry)])
              ELSE UNCHANGED <<server, dataEntries>>
           /\ savingEntries' = [savingEntries EXCEPT ![r.e] = FALSE]
    /\ inflight' = inflight (-) SetToBag({req})
    /\ lastResponse' = IF ok THEN "ok" ELSE "failed"
    /\ UNCHANGED <<entryValues, entryFiles, autoSaveTimeouts, loading,
                   varsFilter, varsList, varsCards, varsOther>>

\* a save that marks the entry saved before it knows the outcome
saveResponseOptimistic(req, ok) ==
    /\ BagIn(req, inflight)
    /\ req.op = "save"
    /\ LET r == req
           saved == [entry \in Range(dataEntries) |-> markSaved(entry, r.value)]
       IN  IF ~ok
           THEN /\ dataEntries' = mapEntry(dataEntries, r.e, saved)
                /\ savingEntries' = [savingEntries EXCEPT ![r.e] = FALSE]
                /\ inflight' = inflight (-) SetToBag({req})
                /\ UNCHANGED <<server, entryValues, entryFiles>>
           ELSE /\ server' = storeEntry(server, r.e, r.value, r.file)
                /\ IF r.file # NoFile \/ r.entryId = NoId
                   THEN /\ inflight' = (inflight (-) SetToBag({req}))
                                        (+) SetToBag({[req EXCEPT !.op = "refetch"]})
                        /\ UNCHANGED <<dataEntries, entryValues, entryFiles,
                                       savingEntries>>
                   ELSE /\ dataEntries' = mapEntry(dataEntries, r.e, saved)
                        /\ entryValues' = Delete(entryValues, r.e)
                        /\ entryFiles' = Delete(entryFiles, r.e)
                        /\ savingEntries' = [savingEntries EXCEPT ![r.e] = FALSE]
                        /\ inflight' = inflight (-) SetToBag({req})
    /\ lastResponse' = IF ok THEN "ok" ELSE "failed"
    /\ UNCHANGED <<autoSaveTimeouts, loading, varsFilter, varsList, varsCards, varsOther>>

\* EventTasks.js 339-381: the response to the request that saves the entry
saveResponse(req, ok) ==
    /\ BagIn(req, inflight)
    /\ req.op = "save"
    /\ LET r == req
           saved == [entry \in Range(dataEntries) |-> markSaved(entry, r.value)]
       IN  IF ~ok
           THEN /\ savingEntries' = [savingEntries EXCEPT ![r.e] = FALSE]
                /\ inflight' = inflight (-) SetToBag({req})
                /\ UNCHANGED <<server, dataEntries, entryValues, entryFiles>>
           ELSE /\ server' = storeEntry(server, r.e, r.value, r.file)
                /\ IF r.file # NoFile \/ r.entryId = NoId
                   THEN /\ inflight' = (inflight (-) SetToBag({req}))
                                        (+) SetToBag({[req EXCEPT !.op = "refetch"]})
                        /\ UNCHANGED <<dataEntries, entryValues, entryFiles,
                                       savingEntries>>
                   ELSE /\ dataEntries' = mapEntry(dataEntries, r.e, saved)
                        /\ entryValues' = Delete(entryValues, r.e)
                        /\ entryFiles' = Delete(entryFiles, r.e)
                        /\ savingEntries' = [savingEntries EXCEPT ![r.e] = FALSE]
                        /\ inflight' = inflight (-) SetToBag({req})
    /\ lastResponse' = IF ok THEN "ok" ELSE "failed"
    /\ UNCHANGED <<autoSaveTimeouts, loading, varsFilter, varsList, varsCards, varsOther>>

\* a reload whose thrown error leaves the handler before the flag is cleared
refetchResponseNoFinally(req, outcome) ==
    /\ BagIn(req, inflight)
    /\ req.op = "refetch"
    /\ LET r == req
       IN  /\ IF outcome = "ok"
              THEN dataEntries' = eventTasks(server, serverAssignments)
              ELSE UNCHANGED dataEntries
           /\ IF outcome = "throw"
              THEN UNCHANGED <<entryValues, entryFiles, savingEntries>>
              ELSE /\ entryValues' = Delete(entryValues, r.e)
                   /\ entryFiles' = Delete(entryFiles, r.e)
                   /\ savingEntries' = [savingEntries EXCEPT ![r.e] = FALSE]
    /\ inflight' = inflight (-) SetToBag({req})
    /\ lastResponse' = "none"
    /\ UNCHANGED <<server, autoSaveTimeouts, loading, varsFilter, varsList, varsCards, varsOther>>

\* EventTasks.js 344-350 and 366-381: the response to the reload after a save
refetchResponse(req, outcome) ==
    /\ BagIn(req, inflight)
    /\ req.op = "refetch"
    /\ LET r == req
       IN  /\ IF outcome = "ok"
              THEN dataEntries' = eventTasks(server, serverAssignments)
              ELSE UNCHANGED dataEntries
           /\ IF outcome = "throw"
              THEN UNCHANGED <<entryValues, entryFiles>>
              ELSE /\ entryValues' = Delete(entryValues, r.e)
                   /\ entryFiles' = Delete(entryFiles, r.e)
           /\ savingEntries' = [savingEntries EXCEPT ![r.e] = FALSE]
    /\ inflight' = inflight (-) SetToBag({req})
    /\ lastResponse' = "none"
    /\ UNCHANGED <<server, autoSaveTimeouts, loading, varsFilter, varsList, varsCards, varsOther>>

\* EventTasks.js 385-409: handleClearFile up to its request
handleClearFile(e) ==
    /\ isVisible(e)
    /\ entryOf(e).evidence_file # NoFile
    /\ entryFiles' = Delete(entryFiles, e)
    /\ IF entryOf(e).id = NoId
       THEN /\ savingEntries' = [savingEntries EXCEPT ![e] = FALSE]
            /\ UNCHANGED inflight
       ELSE /\ BagCardinality(inflight) < MaxInflight
            /\ savingEntries' = [savingEntries EXCEPT ![e] = TRUE]
            /\ inflight' = inflight (+) SetToBag({
                   Request("clearFile", e, entryOf(e).id, 0, NoFile)})
    /\ lastResponse' = "none"
    /\ UNCHANGED <<entryValues, autoSaveTimeouts, server, dataEntries, loading,
                   varsFilter, varsList, varsCards, varsOther>>

\* EventTasks.js 411-428: the response to the request that removes the evidence
clearFileResponse(req, ok) ==
    /\ BagIn(req, inflight)
    /\ req.op = "clearFile"
    /\ LET r == req
       IN  /\ IF ok
              THEN /\ server' = removeEvidence(server, r.e)
                   /\ dataEntries' = mapEntry(dataEntries, r.e,
                                      [entry \in Range(dataEntries) |-> markFileCleared(entry)])
              ELSE UNCHANGED <<server, dataEntries>>
           /\ savingEntries' = [savingEntries EXCEPT ![r.e] = FALSE]
    /\ inflight' = inflight (-) SetToBag({req})
    /\ lastResponse' = IF ok THEN "ok" ELSE "failed"
    /\ UNCHANGED <<entryValues, entryFiles, autoSaveTimeouts, loading,
                   varsFilter, varsList, varsCards, varsOther>>

\* EventTasks.js 432-446: handleClearValue up to its request
handleClearValue(e) ==
    /\ isVisible(e)
    /\ BagCardinality(inflight) < MaxInflight
    /\ entryValues' = Delete(entryValues, e)
    /\ savingEntries' = [savingEntries EXCEPT ![e] = TRUE]
    /\ inflight' = inflight (+) SetToBag({
           Request("clearValue", e, entryIdOf(dataEntries, e), 0, NoFile)})
    /\ lastResponse' = "none"
    /\ UNCHANGED <<entryFiles, autoSaveTimeouts, server, dataEntries, loading,
                   varsFilter, varsList, varsCards, varsOther>>

\* EventTasks.js 446-464: the response to the request of handleClearValue
clearValueResponse(req, ok) ==
    /\ BagIn(req, inflight)
    /\ req.op = "clearValue"
    /\ LET r == req
       IN  /\ IF ok
              THEN /\ server' = storeEntry(server, r.e, 0, NoFile)
                   /\ dataEntries' = mapEntry(dataEntries, r.e,
                                      [entry \in Range(dataEntries) |-> markCleared(entry)])
              ELSE UNCHANGED <<server, dataEntries>>
           /\ savingEntries' = [savingEntries EXCEPT ![r.e] = FALSE]
    /\ inflight' = inflight (-) SetToBag({req})
    /\ lastResponse' = IF ok THEN "ok" ELSE "failed"
    /\ UNCHANGED <<entryValues, entryFiles, autoSaveTimeouts, loading,
                   varsFilter, varsList, varsCards, varsOther>>

(***************************************************************************)
(* EventTasks.js: loading tasks and assignments, the user, the filters.    *)
(***************************************************************************)
NullAssignments ==
    [loaded |-> FALSE,
     category_assignments |-> NoAssignments.category_assignments,
     element_assignments |-> NoAssignments.element_assignments]

Loaded(asg) ==
    [loaded |-> TRUE,
     category_assignments |-> asg.category_assignments,
     element_assignments |-> asg.element_assignments]

Fetch(op) == Request(op, 0, NoId, 0, NoFile)

\* EventTasks.js 44-85 and 88-114: the requests the two effects send for user u
effectRequests(u) ==
    SetToBag({Fetch("fetchEventTasks")} \cup
             (IF canFullAccess(u) \/ canReviewAndLimitedApproval(u)
              THEN {Fetch("fetchAssignments")} ELSE {}))

\* EventTasks.js 50-81: the response to the event-tasks request
\* active is the set of elements the backend counts as the active scope
fetchEventTasks(req, ok, active) ==
    /\ BagIn(req, inflight)
    /\ req.op = "fetchEventTasks"
    /\ IF ok
       THEN /\ dataEntries' = eventTasks(server, serverAssignments)
            /\ progressData' = eventTasksProgress(server, serverAssignments, active)
       ELSE UNCHANGED <<dataEntries, progressData>>
    /\ loading' = FALSE
    /\ inflight' = inflight (-) SetToBag({req})
    /\ lastResponse' = "none"
    /\ UNCHANGED <<entryValues, entryFiles, savingEntries, autoSaveTimeouts,
                   server, varsFilter, varsList, showAssignModal,
                   selectedTaskForAssignment, availableUsers, varsOther>>

\* EventTasks.js 92-108: the response to the assignments request
fetchAssignments(req, ok) ==
    /\ BagIn(req, inflight)
    /\ req.op = "fetchAssignments"
    /\ assignments' = IF ok THEN Loaded(serverAssignments) ELSE Loaded(NoAssignments)
    /\ inflight' = inflight (-) SetToBag({req})
    /\ lastResponse' = "none"
    /\ UNCHANGED <<user, searchTerm, viewFilter, assignmentFilter,
                   serverAssignments, entryValues, entryFiles, savingEntries,
                   autoSaveTimeouts, server, dataEntries, loading, varsList, varsCards, varsOther>>

\* The parent renders the board for another user (prop user): the effects run
\* again when user.role differs (dependency lists, EventTasks.js 85 and 114).
userChange(u) ==
    /\ u # user
    /\ user' = u
    /\ IF u.role # user.role
       THEN /\ BagCardinality(inflight (+) effectRequests(u)) <= MaxInflight
            /\ inflight' = inflight (+) effectRequests(u)
            /\ loading' = TRUE
       ELSE UNCHANGED <<inflight, loading>>
    /\ lastResponse' = "none"
    /\ UNCHANGED <<assignments, searchTerm, viewFilter, assignmentFilter,
                   serverAssignments, entryValues, entryFiles, savingEntries,
                   autoSaveTimeouts, server, dataEntries, varsList, varsCards, varsOther>>

\* EventTasks.js 692
setSearchTerm(term) ==
    /\ ~loading
    /\ term # searchTerm
    /\ searchTerm' = term
    /\ UNCHANGED <<user, assignments, viewFilter, assignmentFilter,
                   serverAssignments, varsSave, dataEntries, loading, varsList, varsCards, varsOther>>

ViewFilters == {"All", "Missing", "Partial", "Complete"}
AssignmentFilters == {"all", "assigned", "unassigned"}

\* EventTasks.js 1046
setViewFilter(view) ==
    /\ ~loading
    /\ view # viewFilter
    /\ viewFilter' = view
    /\ UNCHANGED <<user, assignments, searchTerm, assignmentFilter,
                   serverAssignments, varsSave, dataEntries, loading, varsList, varsCards, varsOther>>

\* EventTasks.js 1130
setAssignmentFilter(option) ==
    /\ ~loading
    /\ option # assignmentFilter
    /\ assignmentFilter' = option
    /\ UNCHANGED <<user, assignments, searchTerm, viewFilter,
                   serverAssignments, varsSave, dataEntries, loading, varsList, varsCards, varsOther>>

\* EventTasks.js 38-40 and 759: the roles the Assign button is rendered for
canAssign(u) == u.role \in {"super_user", "admin", "site_manager"}

\* the users of the company as GET /api/users/ lists them
CompanyUsers ==
    {[role |-> r,
      id |-> IF r \in {"uploader", "viewer", "meter_manager"} THEN 2 ELSE 1] : r \in Roles}

\* the filter without the branch of the site manager
filteredUsersNoSiteBranch(fetched, u) ==
    LET nonViewers == {x \in fetched : x.role # "viewer"}
    IN  IF u.role \in {"super_user"}
        THEN {x \in nonViewers : x.role \in {"super_user", "admin", "site_manager",
                                              "uploader", "meter_manager"}}
        ELSE IF u.role \in {"admin"}
        THEN {x \in nonViewers : x.role \in {"site_manager", "uploader",
                                              "meter_manager"}}
        ELSE nonViewers

\* EventTasks.js 126-141: the fetched fetchAvailableUsers keeps for user u
filteredUsers(fetched, u) ==
    LET nonViewers == {x \in fetched : x.role # "viewer"}
    IN  IF u.role \in {"super_user"}
        THEN {x \in nonViewers : x.role \in {"super_user", "admin", "site_manager",
                                              "uploader", "meter_manager"}}
        ELSE IF u.role \in {"admin"}
        THEN {x \in nonViewers : x.role \in {"site_manager", "uploader",
                                              "meter_manager"}}
        ELSE IF u.role \in {"site_manager"}
        THEN {x \in nonViewers : x.role \in {"uploader", "meter_manager"}}
        ELSE nonViewers

\* EventTasks.js 468-472 with fetchAvailableUsers (117-150) and the response
\* to its request: fetched is the list the backend returns, ok its outcome
handleOpenAssignModal(e, fetched, ok) ==
    /\ canAssign(user)
    /\ isVisible(e)
    /\ ~showAssignModal
    /\ selectedTaskForAssignment' = e
    /\ showAssignModal' = TRUE
    /\ availableUsers' = IF ok THEN filteredUsers(fetched, user) ELSE availableUsers
    /\ lastResponse' = "none"
    /\ UNCHANGED <<entryValues, entryFiles, savingEntries, autoSaveTimeouts,
                   inflight, server, dataEntries, loading, progressData,
                   varsFilter, varsList, varsOther>>

\* EventTasks.js 940-943 and 1012-1015: the close and Cancel buttons of the modal
closeAssignModal ==
    /\ showAssignModal
    /\ selectedTaskForAssignment # 0
    /\ showAssignModal' = FALSE
    /\ selectedTaskForAssignment' = 0
    /\ lastResponse' = "none"
    /\ UNCHANGED <<entryValues, entryFiles, savingEntries, autoSaveTimeouts,
                   inflight, server, dataEntries, loading, progressData,
                   availableUsers, varsFilter, varsList, varsOther>>

\* the backend's side of POST /api/data-collection/{element}/assign/
assignElement(asg, e, userId) == [asg EXCEPT !.element_assignments[e] = userId]

\* EventTasks.js 474-510, with the responses to its two requests
handleAssignElement(userId, ok, refetched) ==
    /\ showAssignModal
    /\ selectedTaskForAssignment # 0
    /\ \E x \in availableUsers : x.id = userId
    /\ IF ok
       THEN /\ serverAssignments' =
                   assignElement(serverAssignments, selectedTaskForAssignment, userId)
            /\ dataEntries' = IF refetched
                              THEN eventTasks(server, serverAssignments')
                              ELSE dataEntries
            /\ showAssignModal' = FALSE
            /\ selectedTaskForAssignment' = 0
       ELSE UNCHANGED <<serverAssignments, dataEntries, showAssignModal,
                        selectedTaskForAssignment>>
    /\ lastResponse' = "none"
    /\ UNCHANGED <<user, assignments, searchTerm, viewFilter, assignmentFilter,
                   entryValues, entryFiles, savingEntries, autoSaveTimeouts,
                   inflight, server, loading, progressData, availableUsers,
                   varsList, varsOther>>

(***************************************************************************)
(* The DeveloperAdmin panel: UserManagementSection (src/unnamed/part_000). *)
(***************************************************************************)
PanelUserIds == {1, 2}
NoAction == [action |-> "none", confirmation |-> "", userConfirmed |-> "undefined"]
NoRequest == [userId |-> 0, action |-> "none", confirmation |-> ""]
NoUsers == [u \in {} |-> "active"]

\* part_000 229-267: the action objects the buttons of a row pass on
ConfirmedActions ==
    {[action |-> "deactivate", confirmation |-> "DEACTIVATE_CONFIRMED"],
     [action |-> "reset_password", confirmation |-> ""],
     [action |-> "delete", confirmation |-> "DELETE_CONFIRMED"]}

\* the texts the operator leaves in the input of the dialog
TypedTexts == {"DELETE", "DELETE_CONFIRMED", "DELETE_CONFIRMED_"}

\* the panel while its page is not mounted
PanelUnmounted ==
    /\ users = NoUsers
    /\ showConfirmDialog = FALSE
    /\ confirmAction = NoAction
    /\ confirmUser = 0
    /\ confirmInput = ""
    /\ typedFor = 0
    /\ lastUserAction = NoRequest
    /\ serverUsers = NoUsers

(***************************************************************************)
(* The backend's checklist generation (core/services.py:ProfilingService), *)
(* as src/unnamed/part_001 268-271 documents it.                           *)
(***************************************************************************)
\* the frameworks in the order they are visited: Core ESG is mandatory
Frameworks == <<"ESG", "DST", "Green Key">>
Cadences == {"Monthly", "Quarterly", "Annually"}
\* two elements that several frameworks require (List.js 264, 277)
SharedElements == <<"food_sourcing", "guest_education">>
NoRequirements ==
    [f \in {Frameworks[i] : i \in DOMAIN Frameworks} |->
        [e \in {SharedElements[i] : i \in DOMAIN SharedElements} |-> "none"]]

\* Monthly > Quarterly > Annually
cadenceRank(c) ==
    CASE c = "Monthly" -> 3
      [] c = "Quarterly" -> 2
      [] c = "Annually" -> 1

higherFrequency(c, d) == IF cadenceRank(d) > cadenceRank(c) THEN d ELSE c

\* an element met again takes the cadence of the framework met last
mergeElementLastWins(list, id, cadence, f) ==
    IF \E i \in DOMAIN list : list[i].id = id
    THEN [i \in DOMAIN list |->
             IF list[i].id = id
             THEN [list[i] EXCEPT !.cadence = cadence, !.frameworks = @ \cup {f}]
             ELSE list[i]]
    ELSE Append(list, [id |-> id, cadence |-> cadence, frameworks |-> {f}])

\* de-duplication and frequency consolidation: an element met again is shown
\* once, with the highest of the frequencies
mergeElement(list, id, cadence, f) ==
    IF \E i \in DOMAIN list : list[i].id = id
    THEN [i \in DOMAIN list |->
             IF list[i].id = id
             THEN [list[i] EXCEPT !.cadence = higherFrequency(@, cadence),
                                  !.frameworks = @ \cup {f}]
             ELSE list[i]]
    ELSE Append(list, [id |-> id, cadence |-> cadence, frameworks |-> {f}])

RECURSIVE addFramework(_, _, _, _)
\* the elements framework f requires, merged into list from the i-th on
addFramework(list, reqs, f, i) ==
    IF i > Len(SharedElements) THEN list
    ELSE LET e == SharedElements[i]
         IN  addFramework(IF reqs[f][e] = "none" THEN list
                          ELSE mergeElement(list, e, reqs[f][e], f),
                          reqs, f, i + 1)

RECURSIVE consolidate(_, _, _, _)
\* the checklist over the active frameworks from the i-th on
consolidate(list, reqs, active, i) ==
    IF i > Len(Frameworks) THEN list
    ELSE consolidate(IF Frameworks[i] \in active
                     THEN addFramework(list, reqs, Frameworks[i], 1)
                     ELSE list,
                     reqs, active, i + 1)

\* ProfilingService.generate_checklist
generate_checklist ==
    /\ backendChecklist' = consolidate(<<>>, frameworkElements, activeFrameworks, 1)
    /\ backendChecklist' # backendChecklist
    /\ UNCHANGED <<frameworkElements, activeFrameworks, varsList, varsTasks, varsAdmin, varsCompany>>

\* FrameworkService: a voluntary framework is selected or dropped
selectFramework(f) ==
    /\ f # "ESG"
    /\ activeFrameworks' = IF f \in activeFrameworks THEN activeFrameworks \ {f}
                           ELSE activeFrameworks \cup {f}
    /\ UNCHANGED <<frameworkElements, backendChecklist, varsList, varsTasks, varsAdmin, varsCompany>>

\* the service while no company is being profiled
ProfilingIdle ==
    /\ frameworkElements = NoRequirements
    /\ activeFrameworks = {"ESG"}
    /\ backendChecklist = <<>>

(***************************************************************************)
(* List.js: the selected company changes while the effect is loading.      *)
(***************************************************************************)
Companies == {1, 2}

\* what the backend holds for the two companies
CompanyQuestions ==
    <<  << [id |-> "backup_generators", activatesElement |-> "generator_fuel"],
           [id |-> "event_facilities",  activatesElement |-> "green_events"] >>,
        << [id |-> "backup_generators", activatesElement |-> "generator_fuel"] >>  >>

CompanyAnswers ==
    <<[q \in {"backup_generators", "event_facilities"} |-> q = "backup_generators"],
      EmptyMap>>

CompanyChecklist == <<TRUE, FALSE>>

\* the company that was selected before
otherCompany == 3 - companyId

\* the page is used for one company only
OneCompany ==
    /\ companyId = 1
    /\ staleFetchStep = "none"

\* List.js 24 and 88-108: selectedCompany changes and the effect runs again;
\* the effect has no cleanup, so the run started for the company before goes on
companyChange(c) ==
    /\ c # companyId
    /\ staleFetchStep = "none"
    /\ companyId' = c
    /\ staleFetchStep' = IF fetchStep = "idle" THEN "none" ELSE fetchStep
    /\ serverChecklist' = CompanyChecklist[c]
    /\ answers' = EmptyMap
    /\ showChecklist' = FALSE
    /\ profilingQuestions' = <<>>
    /\ fetchStep' = "questions"
    /\ lastRequest' = "none"
    /\ UNCHANGED <<modalState, hasUpdatePermission, checklistExists, isGenerating>>
    /\ UNCHANGED <<varsTasks, varsAdmin, varsProfiling>>
    /\ Render

\* List.js 51-86 in the run of the company before
staleProfilingQuestions(ok) ==
    /\ staleFetchStep = "questions"
    /\ profilingQuestions' = IF ok THEN CompanyQuestions[otherCompany]
                             ELSE profilingQuestions
    /\ staleFetchStep' = "answers"
    /\ lastRequest' = "none"
    /\ UNCHANGED <<answers, modalState, hasUpdatePermission, fetchStep, varsView>>
    /\ UNCHANGED <<varsTasks, varsAdmin, varsProfiling, companyId>>
    /\ Render

\* List.js 111-141 in the run of the company before
staleExistingAnswers(ok) ==
    /\ staleFetchStep = "answers"
    /\ answers' = IF ok THEN CompanyAnswers[otherCompany] ELSE answers
    /\ staleFetchStep' = "checklist"
    /\ lastRequest' = "none"
    /\ UNCHANGED <<profilingQuestions, modalState, hasUpdatePermission, fetchStep,
                   varsView>>
    /\ UNCHANGED <<varsTasks, varsAdmin, varsProfiling, companyId>>
    /\ Render

\* List.js 144-165 in the run of the company before
staleChecklistExists(ok) ==
    /\ staleFetchStep = "checklist"
    /\ checklistExists' = IF ok THEN CompanyChecklist[otherCompany] ELSE FALSE
    /\ staleFetchStep' = "completion"
    /\ lastRequest' = "none"
    /\ UNCHANGED <<profilingQuestions, answers, modalState, hasUpdatePermission,
                   fetchStep, showChecklist, isGenerating, serverChecklist>>
    /\ UNCHANGED <<varsTasks, varsAdmin, varsProfiling, companyId>>
    /\ Render

\* List.js 168-194 in the run of the company before
staleWizardCompletion(ok, listed) ==
    /\ staleFetchStep = "completion"
    /\ IF ok /\ wizardCompleted(CompanyAnswers[otherCompany],
                                CompanyQuestions[otherCompany])
       THEN /\ checklistExists' = IF listed THEN CompanyChecklist[otherCompany]
                                  ELSE FALSE
            /\ showChecklist' = IF checklistExists' THEN TRUE ELSE showChecklist
       ELSE UNCHANGED <<checklistExists, showChecklist>>
    /\ staleFetchStep' = "none"
    /\ lastRequest' = "none"
    /\ UNCHANGED <<profilingQuestions, answers, modalState, hasUpdatePermission,
                   fetchStep, isGenerating, serverChecklist>>
    /\ UNCHANGED <<varsTasks, varsAdmin, varsProfiling, companyId>>
    /\ Render

\* the pages and services other than the wizard and the board, at rest
OthersUnmounted == PanelUnmounted /\ ProfilingIdle /\ OneCompany

\* part_000 288-301: the input is rendered while the dialog of a delete is open
inputRendered(shown, action) == shown /\ action.action = "delete"

\* the backend's side of POST /api/admin/users/{userId}/action/
applyUserAction(srv, userId, action) ==
    IF action = "delete" THEN [u \in DOMAIN srv \ {userId} |-> srv[u]]
    ELSE IF action = "deactivate" THEN [srv EXCEPT ![userId] = "inactive"]
    ELSE IF action = "activate" THEN [srv EXCEPT ![userId] = "active"]
    ELSE srv

\* part_000 17-52: loadUsers with the response to its request
loadUsers(ok) ==
    /\ users' = IF ok THEN serverUsers ELSE users
    /\ lastUserAction' = NoRequest
    /\ UNCHANGED <<showConfirmDialog, confirmAction, confirmUser, confirmInput,
                   typedFor, serverUsers, varsList, varsTasks, varsProfiling, varsCompany>>

\* part_000 54-96: handleUserAction with the response to its request and the
\* reload of the list that follows a success
handleUserAction(userId, action, confirmation, ok, reloaded) ==
    LET done == ok /\ userId \in DOMAIN serverUsers
    IN  /\ lastUserAction' = [userId |-> userId, action |-> action,
                              confirmation |-> confirmation]
        /\ serverUsers' = IF done THEN applyUserAction(serverUsers, userId, action)
                          ELSE serverUsers
        /\ users' = IF done /\ reloaded THEN serverUsers' ELSE users

\* part_000 240-246: the Activate button of an inactive user
activateUser(userId, ok, reloaded) ==
    /\ userId \in DOMAIN users
    /\ users[userId] = "inactive"
    /\ handleUserAction(userId, "activate", "", ok, reloaded)
    /\ UNCHANGED <<showConfirmDialog, confirmAction, confirmUser, confirmInput,
                   typedFor, varsList, varsTasks, varsProfiling, varsCompany>>

\* part_000 98-103 called from the buttons of a row (229-267)
showConfirmation(userId, action) ==
    /\ userId \in DOMAIN users
    /\ action.action = "deactivate" => users[userId] = "active"
    /\ confirmUser' = userId
    /\ confirmAction' = [action |-> action.action, confirmation |-> action.confirmation,
                         userConfirmed |-> "undefined"]
    /\ showConfirmDialog' = TRUE
    /\ IF inputRendered(showConfirmDialog, confirmAction) /\ inputRendered(TRUE, action)
       THEN UNCHANGED <<confirmInput, typedFor>>
       ELSE confirmInput' = "" /\ typedFor' = 0
    /\ lastUserAction' = NoRequest
    /\ UNCHANGED <<users, serverUsers, varsList, varsTasks, varsProfiling, varsCompany>>

\* part_000 291-301: onChange of the input of the dialog
typeConfirmation(text) ==
    /\ inputRendered(showConfirmDialog, confirmAction)
    /\ text # confirmInput
    /\ confirmInput' = text
    /\ typedFor' = confirmUser
    /\ confirmAction' = [confirmAction EXCEPT
                             !.userConfirmed = IF text = "DELETE_CONFIRMED"
                                               THEN "true" ELSE "false"]
    /\ lastUserAction' = NoRequest
    /\ UNCHANGED <<users, showConfirmDialog, confirmUser, serverUsers,
                   varsList, varsTasks, varsProfiling, varsCompany>>

\* part_000 114-119
cancelAction ==
    /\ showConfirmDialog
    /\ showConfirmDialog' = FALSE
    /\ confirmUser' = 0
    /\ confirmAction' = NoAction
    /\ confirmInput' = ""
    /\ typedFor' = 0
    /\ lastUserAction' = NoRequest
    /\ UNCHANGED <<users, serverUsers, varsList, varsTasks, varsProfiling, varsCompany>>

\* a Confirm button that is never disabled
confirmAlwaysEnabled == FALSE

\* part_000 311: the disabled attribute of the Confirm button
confirmDisabled ==
    confirmAction.action = "delete" /\ confirmAction.userConfirmed # "true"

\* part_000 105-112 behind the Confirm button (309-315)
confirmActionHandler(ok, reloaded) ==
    /\ showConfirmDialog
    /\ ~confirmDisabled
    /\ confirmAction # NoAction /\ confirmUser # 0
    /\ handleUserAction(confirmUser, confirmAction.action, confirmAction.confirmation,
                        ok, reloaded)
    /\ showConfirmDialog' = FALSE
    /\ confirmUser' = 0
    /\ confirmAction' = NoAction
    /\ confirmInput' = ""
    /\ typedFor' = 0
    /\ UNCHANGED <<varsList, varsTasks, varsProfiling, varsCompany>>


(***************************************************************************)
(* Initial states and specifications.                                      *)
(***************************************************************************)
\* List.js 10-21: the wizard before a company is selected
InitList ==
    /\ profilingQuestions = <<>>
    /\ answers = EmptyMap
    /\ modalState = "closed"
    /\ fetchStep = "idle"
    /\ finalChecklist = Undefined
    /\ lastRender = "kept"
    /\ lastRequest = "none"
    /\ showChecklist = FALSE
    /\ checklistExists = FALSE
    /\ isGenerating = FALSE

\* EventTasks.js 10-28: the board as mounted for user u, its effects started
InitBoard(u) ==
    /\ user = u
    /\ dataEntries = <<>>
    /\ progressData = [overall |-> EmptyMap, active |-> EmptyMap]
    /\ loading = TRUE
    /\ showAssignModal = FALSE
    /\ selectedTaskForAssignment = 0
    /\ availableUsers = {}
    /\ assignments = NullAssignments
    /\ searchTerm = ""
    /\ viewFilter = "All"
    /\ assignmentFilter = "all"
    /\ entryValues = EmptyMap
    /\ entryFiles = EmptyMap
    /\ savingEntries = [e \in Elements |-> FALSE]
    /\ autoSaveTimeouts = EmptyMap
    /\ inflight = effectRequests(u)
    /\ lastResponse = "none"

\* what the backend may hold of one element when the board is mounted
StoredSubmissions(e) ==
    {NoSubmission} \cup
    {[id |-> SubmissionId(e), value |-> v, evidence_file |-> f] :
        v \in Values, f \in Files \cup {NoFile}}

\* the backend of the filter specification: one task of every status
BoardServer ==
    [e \in Elements |->
        CASE e = 1 -> [id |-> SubmissionId(1), value |-> 1,
                       evidence_file |-> "evidence.pdf"]
          [] e = 2 -> [id |-> SubmissionId(2), value |-> 1, evidence_file |-> NoFile]
          [] OTHER -> NoSubmission]

\* the assignment mappings the backend may hold: either category to any user or
\* to none, the first and the last element to any user or to none
AssignmentMappings ==
    {m \in [category_assignments : [TaskCategories -> UserIds \cup {NoUser}],
            element_assignments : [Elements -> UserIds \cup {NoUser}]] :
        /\ m.element_assignments[2] = NoUser
        /\ m.category_assignments["Social"] # 2}

\* ---- the profiling wizard: every save of an answer succeeds and the company
\* has no stored checklist ----
Init ==
    /\ InitList
    /\ OthersUnmounted
    /\ hasUpdatePermission \in BOOLEAN
    /\ serverChecklist = FALSE
    /\ InitBoard([role |-> "viewer", id |-> 1])
    /\ server = BoardServer
    /\ serverAssignments = NoAssignments

Next ==
    \/ fetchData
    \/ \E qs \in BackendQuestionLists \cup {<<>>} : fetchProfilingQuestions(qs)
    \/ \E m \in AnswerMaps(profilingQuestions), ok \in BOOLEAN :
           fetchExistingAnswers(m, ok)
    \/ \E ok \in BOOLEAN : checkChecklistExists(ok)
    \/ \E ok \in BOOLEAN : checkWizardCompletion(answers, profilingQuestions, ok)
    \/ \E i \in 1..Len(profilingQuestions), a \in BOOLEAN :
           handleAnswerChange(profilingQuestions[i].id, a, "ok")
    \/ \E a \in BOOLEAN : handleAnswerAll(a, "ok")
    \/ closeModal

Spec == Init /\ [][Next]_vars

(***************************************************************************)
(* Claims about the checklist generation (specification Spec).             *)
(***************************************************************************)
YesCount == Cardinality({i \in 1..Len(profilingQuestions) :
                            /\ profilingQuestions[i].id \in DOMAIN answers
                            /\ answers[profilingQuestions[i].id] = TRUE})
ActivatedBy(c) ==
    \E i \in 1..Len(profilingQuestions) :
        /\ profilingQuestions[i].activatesElement = c
        /\ profilingQuestions[i].id \in DOMAIN answers
        /\ answers[profilingQuestions[i].id] = TRUE
ActivateDistinctElements ==
    \A i, j \in 1..Len(profilingQuestions) :
        profilingQuestions[i].activatesElement = profilingQuestions[j].activatesElement
            => i = j
MustHaveIds == {mustHaveElements[i].id : i \in 1..Len(mustHaveElements)}
ChecklistIds == Ids(finalChecklist.items)

\* C1: for a complete answer map the checklist holds every must-have element
\* exactly once and a conditional element iff a question that activates it is
\* answered true; nine questions on distinct elements with three answered true
\* give a checklist of 14 + 3 elements.
C1_ChecklistContents ==
    /\ (Len(profilingQuestions) > 0
        /\ QuestionIds(profilingQuestions) \subseteq DOMAIN answers)
           => finalChecklist.defined
    /\ finalChecklist.defined =>
        /\ \A m \in MustHaveIds : Count(ChecklistIds, m) = 1
        /\ \A c \in DOMAIN conditionalElements :
               (Count(ChecklistIds, c) > 0) <=> ActivatedBy(c)
        /\ (Len(profilingQuestions) = 9 /\ ActivateDistinctElements /\ YesCount = 3)
               => Len(finalChecklist.items) = 14 + 3

C1_Witness ==
    /\ finalChecklist.defined
    /\ Len(profilingQuestions) = 9
    /\ YesCount = 3
    /\ Len(finalChecklist.items) = 17

\* C2: the generated checklist never holds two entries with the same element id.
C2_NoDuplicateElements ==
    finalChecklist.defined =>
        \A i, j \in 1..Len(ChecklistIds) : ChecklistIds[i] = ChecklistIds[j] => i = j

\* the number of entries of element x a generation from (qs, ans) alone holds
ExpectedCount(qs, ans, x) ==
    (IF x \in MustHaveIds THEN 1 ELSE 0) +
    Cardinality({i \in 1..Len(qs) :
                    /\ x \in DOMAIN conditionalElements
                    /\ qs[i].activatesElement = x
                    /\ qs[i].id \in DOMAIN ans
                    /\ ans[qs[i].id] = TRUE})

\* C3: a generation depends on the current answers alone: the same questions and
\* answers give the same checklist in the same order, and after any change the
\* new checklist holds exactly the entries the new answers ask for, nothing of
\* an earlier generation.
C3_RegenerationIsPure ==
    [][/\ (profilingQuestions' = profilingQuestions /\ answers' = answers)
              => finalChecklist' = finalChecklist
       /\ finalChecklist'.defined =>
              \A x \in MustHaveIds \cup DOMAIN conditionalElements
                       \cup Range(Ids(finalChecklist'.items)) :
                  Count(Ids(finalChecklist'.items), x)
                      = ExpectedCount(profilingQuestions', answers', x)]_vars

C3_Witness ==
    /\ lastRender = "dropped"
    /\ finalChecklist.defined
    /\ YesCount > 0

CategoryRank == [Environmental |-> 1, Governance |-> 2, Social |-> 3]
\* the elements as they are put together before the sort: catalog order, then
\* the activated elements in question order
InputOrder == pushActivated(mustHaveElements, profilingQuestions, answers)
OfCategory(s, c) == LET in(x) == x.category = c IN SelectSeq(s, in)

\* C4: the checklist is ordered Environmental, Governance, Social and within a
\* category the elements keep their input order.
C4_SortedStable ==
    finalChecklist.defined =>
        /\ \A i, j \in 1..Len(finalChecklist.items) :
               i < j => CategoryRank[finalChecklist.items[i].category]
                            <= CategoryRank[finalChecklist.items[j].category]
        /\ \A c \in DOMAIN CategoryRank :
               OfCategory(finalChecklist.items, c) = OfCategory(InputOrder, c)

C4_Witness ==
    /\ finalChecklist.defined
    /\ Len(profilingQuestions) = 9
    /\ {"generator_fuel", "lpg_consumption", "green_events", "board_composition"}
           \subseteq Range(ChecklistIds)

\* ---- saving on the event-task board ----
\* the users the saving specification mounts the board for
SaveUsers == {[role |-> "admin", id |-> 1], [role |-> "viewer", id |-> 2]}
\* the tasks the user works on
WorkedElements == {1}

InitSave ==
    /\ InitList
    /\ OthersUnmounted
    /\ hasUpdatePermission = TRUE
    /\ serverChecklist = FALSE
    /\ \E u \in SaveUsers : InitBoard(u)
    /\ server \in {srv \in [Elements -> UNION {StoredSubmissions(e) : e \in Elements}] :
                      /\ \A e \in Elements : srv[e] \in StoredSubmissions(e)
                      /\ \A e \in Elements \ WorkedElements : srv[e] = NoSubmission}
    /\ serverAssignments = NoAssignments

NextSave ==
    \/ \E req \in BagToSet(inflight), ok \in BOOLEAN : fetchEventTasks(req, ok, Elements)
    \/ \E req \in BagToSet(inflight), ok \in BOOLEAN : fetchAssignments(req, ok)
    \/ \E e \in WorkedElements, v \in Values : handleValueChange(e, v)
    \/ \E e \in WorkedElements : autoSaveTimeout(e)
    \/ \E e \in WorkedElements, f \in Files : handleFileChange(e, f)
    \/ \E e \in WorkedElements : handleClearFile(e)
    \/ \E req \in BagToSet(inflight), ok \in BOOLEAN : clearResponse(req, ok)
    \/ \E req \in BagToSet(inflight), ok \in BOOLEAN : saveResponse(req, ok)
    \/ \E req \in BagToSet(inflight), o \in {"ok", "notok", "throw"} :
           refetchResponse(req, o)
    \/ \E req \in BagToSet(inflight), ok \in BOOLEAN : clearFileResponse(req, ok)

SpecSave == InitSave /\ [][NextSave]_vars

\* the same with handleClearValue, which no element of the page calls
NextSaveAll ==
    \/ NextSave
    \/ \E e \in WorkedElements : handleClearValue(e)
    \/ \E req \in BagToSet(inflight), ok \in BOOLEAN : clearValueResponse(req, ok)

SpecSaveAll == InitSave /\ [][NextSaveAll]_vars

(***************************************************************************)
(* Claims about saving (specifications SpecSave and SpecSaveAll).          *)
(***************************************************************************)
entryIn(entries, e) == CHOOSE t \in Range(entries) : t.element_id = e

\* C5: the status of every task shown is recomputeStatus of the presence of its
\* value and of its evidence file.
C5_StatusMatchesPresence ==
    \A i \in 1..Len(dataEntries) :
        dataEntries[i].status =
            recomputeStatus(dataEntries[i].value # 0,
                            dataEntries[i].evidence_file # NoFile,
                            evidenceRequired(dataEntries[i].element_id))

\* C6: a successful clear recomputes the status by the rule of a set: after the
\* value is cleared the task is partial if it still has its evidence file and
\* missing otherwise; after the evidence is cleared it is partial if it has a
\* value and missing otherwise.
C6_ClearingRecomputesStatus ==
    [][\A req \in BagToSet(inflight) :
          /\ clearResponse(req, TRUE) =>
                 entryIn(dataEntries', req.e).status =
                     IF entryIn(dataEntries', req.e).evidence_file # NoFile
                     THEN "partial" ELSE "missing"
          /\ clearFileResponse(req, TRUE) =>
                 entryIn(dataEntries', req.e).status =
                     IF entryIn(dataEntries', req.e).value # 0
                     THEN "partial" ELSE "missing"]_vars

\* C7: a response that reports a failed save leaves the displayed tasks as they
\* were, and no handler changes them before its request is answered.
C7_FailedSaveKeepsEntries ==
    [][/\ (\E req \in BagToSet(inflight) :
              \/ clearResponse(req, FALSE)
              \/ saveResponse(req, FALSE)
              \/ clearFileResponse(req, FALSE)
              \/ clearValueResponse(req, FALSE))
          => dataEntries' = dataEntries
       /\ BagCardinality(inflight') > BagCardinality(inflight) => dataEntries' = dataEntries]_vars

C7_Witness ==
    /\ lastResponse = "failed"
    /\ \E e \in WorkedElements :
          /\ e \in DOMAIN entryValues
          /\ entryValues[e] # 0
          /\ entryValues[e] # entryOf(e).value
          /\ entryOf(e).status = "missing"
          /\ ~savingEntries[e]

\* ---- role and assignment filtering of the event-task board ----
InitFilter ==
    /\ InitList
    /\ OthersUnmounted
    /\ hasUpdatePermission = TRUE
    /\ serverChecklist = FALSE
    /\ \E u \in Users : InitBoard(u)
    /\ server = BoardServer
    /\ serverAssignments \in AssignmentMappings

NextFilter ==
    \/ \E req \in BagToSet(inflight), ok \in BOOLEAN : fetchEventTasks(req, ok, Elements)
    \/ \E req \in BagToSet(inflight), ok \in BOOLEAN : fetchAssignments(req, ok)
    \/ \E u \in Users : userChange(u)
    \/ \E term \in SearchTerms : setSearchTerm(term)
    \/ \E view \in ViewFilters : setViewFilter(view)
    \/ \E option \in AssignmentFilters : setAssignmentFilter(option)

SpecFilter == InitFilter /\ [][NextFilter]_vars


(***************************************************************************)
(* Claims about the filtered task list (specification SpecFilter).         *)
(***************************************************************************)
DefaultFilters == searchTerm = "" /\ viewFilter = "All" /\ assignmentFilter = "all"

Shown(e) == \E i \in 1..Len(visibleTasks) : visibleTasks[i].element_id = e
Listed(e) == \E i \in 1..Len(dataEntries) : dataEntries[i].element_id = e

\* element e belongs to another user than uid by an element-level assignment
OverriddenFor(asg, e, uid) ==
    asg.element_assignments[e] \notin {NoUser, uid}

\* the elements user uid is assigned under mapping asg: directly, or through the
\* category unless the element is assigned to another user
AssignedTo(asg, uid) ==
    {e \in Elements :
        \/ asg.element_assignments[e] = uid
        \/ /\ asg.category_assignments[CatalogOf(e).element_category] = uid
           /\ ~OverriddenFor(asg, e, uid)}

\* C8: an element-level assignment overrides the category-level one: the list
\* filtered for the user who holds only the category of element E does not
\* contain the task of E when E is assigned to another user, and the list
\* filtered for the user E is assigned to contains it.
C8_ElementOverridesCategory ==
    (user.role \in RestrictedRoles /\ assignments.loaded /\ ~loading /\ DefaultFilters)
    => \A e \in Elements :
          /\ (/\ OverriddenFor(assignments, e, user.id)
              /\ assignments.category_assignments[CatalogOf(e).element_category]
                     = user.id)
             => ~Shown(e)
          /\ (assignments.element_assignments[e] = user.id /\ Listed(e))
             => Shown(e)

\* C9: with the filters at their defaults an uploader or meter manager is shown
\* exactly the listed tasks assigned to them, by element or by a category that
\* no element-level assignment to another user overrides, and so never a task
\* that is assigned to them neither way.
C9_RestrictedSeeExactlyAssigned ==
    (user.role \in {"uploader", "meter_manager"} /\ ~loading /\ DefaultFilters)
    => \A e \in Elements :
          Shown(e) <=> (Listed(e) /\ e \in AssignedTo(serverAssignments, user.id))

\* C10: for super_user and admin the assignments have no effect on what is
\* visible: with search, view and assignment filter at their defaults the
\* filtered list is the full list, whatever the assignments are.
C10_AdminsSeeFullList ==
    (canFullAccess(user) /\ DefaultFilters) => filteredEntries = dataEntries

C10_Witness ==
    /\ canFullAccess(user)
    /\ DefaultFilters
    /\ ~loading
    /\ Len(dataEntries) = Len(TaskCatalog)
    /\ assignments.loaded
    /\ AssignedTo(assignments, user.id) = {}
    /\ \E e \in Elements : OverriddenFor(assignments, e, user.id)
    /\ visibleTasks = dataEntries


(***************************************************************************)
(* The wizard with its completion check and its checklist view             *)
(* (specification SpecWizard).                                             *)
(***************************************************************************)
\* the question lists of the company the completion check is followed for
WizardQuestionLists == {qs \in BackendQuestionLists : QuestionIds(qs) \subseteq WizardIds}

InitWizard ==
    /\ InitList
    /\ OthersUnmounted
    /\ hasUpdatePermission \in BOOLEAN
    /\ serverChecklist \in BOOLEAN
    /\ InitBoard([role |-> "viewer", id |-> 1])
    /\ server = BoardServer
    /\ serverAssignments = NoAssignments

\* The two requests of checkWizardCompletion are answered with what the effect
\* loaded before: the answers and the questions the component holds.
NextWizard ==
    \/ fetchData
    \/ \E qs \in WizardQuestionLists \cup {<<>>} : fetchProfilingQuestions(qs)
    \/ \E m \in StoredAnswerMaps(profilingQuestions), ok \in BOOLEAN :
           fetchExistingAnswers(m, ok)
    \/ \E ok \in BOOLEAN : checkChecklistExists(ok)
    \/ \E ok \in BOOLEAN : checkWizardCompletion(answers, profilingQuestions, ok)
    \/ \E i \in 1..Len(profilingQuestions), a \in BOOLEAN, st \in SaveStatuses :
           handleAnswerChange(profilingQuestions[i].id, a, st)
    \/ \E a \in BOOLEAN, st \in SaveStatuses : handleAnswerAll(a, st)
    \/ closeModal
    \/ saveAnswersAndGenerateChecklist
    \/ \E saved \in BOOLEAN, listed \in BOOLEAN : saveAnswersResponse(saved, listed)
    \/ viewChecklist
    \/ \E ok \in BOOLEAN : backToQuestions(ok)

SpecWizard == InitWizard /\ [][NextWizard]_vars


(***************************************************************************)
(* Claims about the wizard (specification SpecWizard).                     *)
(***************************************************************************)
EveryQuestionHasEntry ==
    QuestionIds(profilingQuestions) \subseteq DOMAIN answers

\* C11: "all answered" holds iff every question of the list has an entry in the
\* answers (false counts), and the completion check of the wizard decides by
\* the same condition.
C11_AllAnsweredSameEverywhere ==
    /\ Len(profilingQuestions) > 0 =>
           (allQuestionsAnswered(profilingQuestions, answers) <=> EveryQuestionHasEntry)
    /\ fetchStep = "completion" =>
           (wizardCompleted(answers, profilingQuestions)
                <=> allQuestionsAnswered(profilingQuestions, answers))


\* C12: while a question is unanswered no checklist is generated: there is no
\* checklist, no save_answers request is sent and the checklist view is not
\* rendered; where the checklist view is rendered the checklist is defined.
C12_NoChecklistWhileUnanswered ==
    /\ ~EveryQuestionHasEntry =>
           /\ ~finalChecklist.defined
           /\ lastRequest # "save_answers"
           /\ ~checklistView
    /\ checklistView => finalChecklist.defined

C12_Witness ==
    /\ showChecklist
    /\ checklistExists
    /\ ~EveryQuestionHasEntry
    /\ answers # EmptyMap
    /\ fetchStep = "idle"
    /\ ~finalChecklist.defined

\* the answers after the single-answer operation was applied to every question
\* of the list in turn
RECURSIVE answerEach(_, _, _)
answerEach(ans, qs, answer) ==
    IF qs = <<>> THEN ans
    ELSE answerEach(newAnswers(ans, Head(qs).id, answer), Tail(qs), answer)

AnswerAllStep(answer) == \E st \in SaveStatuses : handleAnswerAll(answer, st)
AnswerChangeStep ==
    \E i \in 1..Len(profilingQuestions), a \in BOOLEAN, st \in SaveStatuses :
        handleAnswerChange(profilingQuestions[i].id, a, st)

\* C13: the bulk answer leaves the answers as the single-answer operation
\* applied to every question of the list leaves them, from any answers.
C13_AnswerAllIsAnswerEach ==
    [][\A a \in BOOLEAN :
          (hasUpdatePermission /\ AnswerAllStep(a))
              => answers' = answerEach(answers, profilingQuestions, a)]_vars

\* C14: after an all-No bulk answer every question of the list has the answer
\* false, all are answered and the checklist is the must-have elements alone.
C14_AllNoLeavesMustHaveOnly ==
    [][(hasUpdatePermission /\ AnswerAllStep(FALSE)) =>
          /\ \A q \in QuestionIds(profilingQuestions') :
                 q \in DOMAIN answers' /\ answers'[q] = FALSE
          /\ allQuestionsAnswered(profilingQuestions', answers')
          /\ finalChecklist'.defined
          /\ finalChecklist'.items = sort(mustHaveElements)]_vars

C14_Witness ==
    /\ hasUpdatePermission
    /\ lastRequest = "save_profile_answer"
    /\ Len(profilingQuestions) >= 2
    /\ \A q \in QuestionIds(profilingQuestions) : q \in DOMAIN answers /\ ~answers[q]
    /\ finalChecklist.defined
    /\ Len(finalChecklist.items) = Len(mustHaveElements)
    /\ lastRender = "dropped"

\* C15: a question answered true whose activatesElement is not in the catalog
\* of conditional elements is reported, so no checklist is produced from it.
C15_UnknownActivationReported ==
    finalChecklist.defined =>
        \A i \in 1..Len(profilingQuestions) :
            (/\ profilingQuestions[i].id \in DOMAIN answers
             /\ answers[profilingQuestions[i].id] = TRUE)
                => profilingQuestions[i].activatesElement \in DOMAIN conditionalElements

\* C17: an answer operation removes no entry of the answers, and an entry it
\* does not write keeps its value.
C17_AnswersNeverRemoved ==
    [][(hasUpdatePermission /\ (AnswerChangeStep \/ \E a \in BOOLEAN : AnswerAllStep(a)))
          => /\ DOMAIN answers \subseteq DOMAIN answers'
             /\ \A q \in DOMAIN answers \ QuestionIds(profilingQuestions) :
                    answers'[q] = answers[q]]_vars

\* C19: an answer operation called without the update permission leaves the
\* answers as they are, sends no save request and shows "Permission Denied".
C19_PermissionDenied ==
    [][(~hasUpdatePermission /\ (AnswerChangeStep \/ \E a \in BOOLEAN : AnswerAllStep(a)))
          => /\ answers' = answers
             /\ lastRequest' = "none"
             /\ modalState' = "Permission Denied"]_vars

C19_Witness ==
    /\ ~hasUpdatePermission
    /\ modalState = "Permission Denied"
    /\ lastRequest = "none"
    /\ Len(profilingQuestions) > 0
    /\ ~EveryQuestionHasEntry


(***************************************************************************)
(* Claims about the event-task board (SpecSave, SpecRoles, SpecProgress).  *)
(***************************************************************************)
\* ---- the board per role, with the assignment of a task ----
RoleUsers == {[role |-> "admin", id |-> 1], [role |-> "viewer", id |-> 2],
              [role |-> "meter_manager", id |-> 2]}

InitRoles ==
    /\ InitList
    /\ OthersUnmounted
    /\ hasUpdatePermission = TRUE
    /\ serverChecklist = FALSE
    /\ \E u \in RoleUsers : InitBoard(u)
    /\ server = BoardServer
    /\ serverAssignments = NoAssignments

NextRoles ==
    \/ NextSave
    \/ \E e \in WorkedElements : handleOpenAssignModal(e, CompanyUsers, TRUE)
    \/ closeAssignModal
    \/ \E ok \in BOOLEAN, refetched \in BOOLEAN : handleAssignElement(2, ok, refetched)

SpecRoles == InitRoles /\ [][NextRoles]_vars

\* ---- the progress cards of the board ----
InitProgress ==
    /\ InitList
    /\ OthersUnmounted
    /\ hasUpdatePermission = TRUE
    /\ serverChecklist = FALSE
    /\ \E u \in SaveUsers : InitBoard(u)
    /\ server \in {srv \in [Elements -> UNION {StoredSubmissions(e) : e \in Elements}] :
                      \A e \in Elements : srv[e] \in StoredSubmissions(e)}
    /\ serverAssignments = NoAssignments

NextProgress ==
    \/ \E req \in BagToSet(inflight), ok \in BOOLEAN, active \in SUBSET Elements :
           fetchEventTasks(req, ok, active)
    \/ \E req \in BagToSet(inflight), ok \in BOOLEAN : fetchAssignments(req, ok)
    \/ \E u \in SaveUsers : userChange(u)

SpecProgress == InitProgress /\ [][NextProgress]_vars

MutationOps == {"save", "clear", "clearFile", "clearValue"}

\* C16: a save for an element that has a submission updates that submission:
\* no request creates a second one.
C16_SavesUpdateTheSubmission ==
    \A req \in BagToSet(inflight) :
        (req.op \in {"save", "clear", "clearValue"} /\ server[req.e].id # NoId)
            => req.entryId = server[req.e].id

\* C18: the percentage shown on either progress card lies in 0..100 and is 0
\* when the card's scope has no task.
C18_ProgressShownInRange ==
    /\ overallProgressShown \in 0..100
    /\ activeProgressShown \in 0..100
    /\ orZero(progressData.overall, "total_tasks") = 0 => overallProgressShown = 0
    /\ orZero(progressData.active, "active_tasks") = 0 => activeProgressShown = 0

C18_Witness ==
    /\ ~loading
    /\ overallProgressShown \in 1..99
    /\ orZero(progressData.overall, "total_tasks") = Len(TaskCatalog)
    /\ "active_tasks" \in DOMAIN progressData.active
    /\ progressData.active.active_tasks = 0
    /\ activeProgressShown = 0

\* C20: for a viewer or a meter manager no request that sets or clears a value
\* or an evidence file is sent, and the assignment modal is never open.
C20_ViewOnlyRolesMutateNothing ==
    (isViewOnly(user) \/ isMeterDataOnly(user)) =>
        /\ \A req \in BagToSet(inflight) : req.op \notin MutationOps
        /\ ~showAssignModal


(***************************************************************************)
(* Claims about the status of a task (specification SpecStatus).           *)
(***************************************************************************)
\* the users the status specification mounts the board for: two roles that
\* edit, with different ids
StatusUsers == {[role |-> "uploader", id |-> 2], [role |-> "site_manager", id |-> 1]}

InitStatus ==
    /\ InitList
    /\ OthersUnmounted
    /\ hasUpdatePermission = TRUE
    /\ serverChecklist = FALSE
    /\ \E u \in StatusUsers : InitBoard(u)
    /\ server \in {srv \in [Elements -> UNION {StoredSubmissions(e) : e \in Elements}] :
                      /\ \A e \in Elements : srv[e] \in StoredSubmissions(e)
                      /\ \A e \in Elements \ WorkedElements : srv[e] = NoSubmission}
    /\ serverAssignments = NoAssignments

SpecStatus == InitStatus /\ [][NextSaveAll]_vars

TaskStatuses == {"missing", "partial", "complete"}

\* the events of a task: what a handled response did to it
valueSetStatus(entry) ==
    IF entry.evidence_file # NoFile THEN "complete" ELSE "partial"
valueClearedStatus(entry) == "missing"
evidenceClearedStatus(entry) == IF entry.value # 0 THEN "partial" ELSE "missing"
reloadedStatus(srv, e) ==
    recomputeStatus(srv[e].value # 0, srv[e].evidence_file # NoFile, evidenceRequired(e))

StatusesKept == \A i \in 1..Len(dataEntries) : dataEntries'[i].status = dataEntries[i].status

\* the status the event of this step gives the task of request req, written
\* without the user: a reload, a value set, a value cleared, an evidence cleared
EventStatus(req) ==
    LET old == entryIn(dataEntries, req.e)
    IN  CASE fetchEventTasks(req, TRUE, Elements) \/ refetchResponse(req, "ok")
               -> reloadedStatus(server, req.e)
          [] saveResponse(req, TRUE) /\ req.file = NoFile /\ req.entryId # NoId
               -> IF req.value # 0 THEN valueSetStatus(old) ELSE "partial"
          [] clearResponse(req, TRUE) \/ clearValueResponse(req, TRUE)
               -> valueClearedStatus(old)
          [] clearFileResponse(req, TRUE) -> evidenceClearedStatus(old)
          [] OTHER -> old.status

\* C21: the status of a task is one of missing, partial, complete and each step
\* gives it the status of the event it applies (value or evidence set or
\* cleared, reload), whoever the user is; a step without such an event keeps it.
C21_StatusByEventsOnly ==
    [][/\ \A i \in 1..Len(dataEntries') : dataEntries'[i].status \in TaskStatuses
       /\ IF dataEntries = <<>>
          THEN dataEntries' # <<>> =>
                   \A e \in Elements :
                       entryIn(dataEntries', e).status = reloadedStatus(server, e)
          ELSE /\ Len(dataEntries') = Len(dataEntries)
               /\ \A req \in BagToSet(inflight) :
                      (req \notin DOMAIN inflight' \/ inflight'[req] < inflight[req])
                          => /\ req.e \in Elements =>
                                 entryIn(dataEntries', req.e).status = EventStatus(req)
               /\ inflight' = inflight \/ BagCardinality(inflight') > BagCardinality(inflight)
                      => StatusesKept]_vars

C21_Witness ==
    /\ user.role = "uploader"
    /\ lastResponse = "ok"
    /\ \E e \in WorkedElements :
          /\ entryOf(e).status = "partial"
          /\ entryOf(e).value # 0
          /\ server[e].id # NoId


(***************************************************************************)
(* Claims about the requests of the board (SpecSave, SpecSaveAll).         *)
(***************************************************************************)
\* the handler invocations for element e that wait for a response
SavesInFlight(e) ==
    LET forE == {req \in BagToSet(inflight) :
                    req.e = e /\ req.op \in MutationOps \cup {"refetch"}}
    IN  BagCardinality([req \in forE |-> inflight[req]])

\* C24: at most one save, clear or evidence-clear invocation per element waits
\* for its response, and savingEntries[e] is true exactly while one does.
C24_OneSavePerElement ==
    \A e \in Elements :
        /\ SavesInFlight(e) <= 1
        /\ savingEntries[e] <=> SavesInFlight(e) = 1

\* C25: when the debounce timer of an element fires, a save request carrying
\* the value the timer holds (the last value entered) is sent.
C25_TimerSendsLastValue ==
    [][\A e \in WorkedElements :
          autoSaveTimeout(e) =>
              \E req \in BagToSet(inflight') :
                  /\ req.e = e
                  /\ req.op \in {"save", "clear"}
                  /\ req.value = autoSaveTimeouts[e].value
                  /\ (req \notin DOMAIN inflight \/ inflight'[req] > inflight[req])]_vars


(***************************************************************************)
(* Claims about the busy flags (specification SpecBusy).                   *)
(***************************************************************************)
\* the board while its page is not mounted: nothing loaded, no request
BoardUnmounted ==
    /\ user = [role |-> "viewer", id |-> 1]
    /\ dataEntries = <<>>
    /\ progressData = [overall |-> EmptyMap, active |-> EmptyMap]
    /\ loading = TRUE
    /\ showAssignModal = FALSE
    /\ selectedTaskForAssignment = 0
    /\ availableUsers = {}
    /\ assignments = NullAssignments
    /\ searchTerm = ""
    /\ viewFilter = "All"
    /\ assignmentFilter = "all"
    /\ entryValues = EmptyMap
    /\ entryFiles = EmptyMap
    /\ savingEntries = [e \in Elements |-> FALSE]
    /\ autoSaveTimeouts = EmptyMap
    /\ inflight = EmptyBag
    /\ lastResponse = "none"
    /\ server = BoardServer
    /\ serverAssignments = NoAssignments

\* the wizard while its page is not mounted
ListUnmounted ==
    /\ profilingQuestions = <<>>
    /\ answers = EmptyMap
    /\ modalState = "closed"
    /\ fetchStep = "unmounted"
    /\ finalChecklist = Undefined
    /\ lastRender = "kept"
    /\ lastRequest = "none"
    /\ showChecklist = FALSE
    /\ checklistExists = FALSE
    /\ isGenerating = FALSE
    /\ hasUpdatePermission = TRUE
    /\ serverChecklist = FALSE

\* one of the two pages is mounted: the wizard or the board
InitBusy ==
    \/ /\ InitList
       /\ OthersUnmounted
       /\ hasUpdatePermission \in BOOLEAN
       /\ serverChecklist \in BOOLEAN
       /\ BoardUnmounted
    \/ /\ ListUnmounted
       /\ OthersUnmounted
       /\ \E u \in SaveUsers : InitBoard(u)
       /\ server \in {srv \in [Elements -> UNION {StoredSubmissions(e) : e \in Elements}] :
                         /\ \A e \in Elements : srv[e] \in StoredSubmissions(e)
                         /\ \A e \in Elements \ WorkedElements : srv[e] = NoSubmission}
       /\ serverAssignments = NoAssignments

NextBusy == NextWizard \/ NextSaveAll

SpecBusy == InitBusy /\ [][NextBusy]_vars

\* C27: a busy flag is set only while a request of its handler waits for a
\* response, and the step that handles the last outcome of a handler (success,
\* non-OK, thrown error) or returns early clears it.
C27_BusyFlagsCleared ==
    [][/\ \A e \in Elements : savingEntries'[e] => SavesInFlight(e)' >= 1
       /\ \A e \in Elements :
              (SavesInFlight(e) >= 1 /\ SavesInFlight(e)' < SavesInFlight(e))
                  => ~savingEntries'[e]
       /\ \A saved \in BOOLEAN, listed \in BOOLEAN :
              saveAnswersResponse(saved, listed) => ~isGenerating'
       /\ isGenerating' => (isGenerating \/ lastRequest' = "save_answers")]_vars

C27_Witness ==
    /\ lastResponse = "none"
    /\ inflight = EmptyBag
    /\ \A e \in Elements : ~savingEntries[e]
    /\ \E e \in WorkedElements :
          /\ e \in DOMAIN entryFiles
          /\ server[e].evidence_file = entryFiles[e]
          /\ entryOf(e).evidence_file = NoFile


(***************************************************************************)
(* Claims about the header of the wizard (specification SpecWizard).       *)
(***************************************************************************)
\* List.js 673: Object.keys(answers).length
answeredShown == Cardinality(DOMAIN answers)
\* List.js 859: profilingQuestions.length - Object.keys(answers).length
moreQuestionsShown == Len(profilingQuestions) - answeredShown

\* C28: where the questions are on the page the number of answered questions
\* shown is between 0 and the number of questions (so the bar is within 0%..100%)
\* and the "Answer N more questions" count is not negative.
C28_AnsweredCountInRange ==
    questionsShown =>
        /\ answeredShown \in 0..Len(profilingQuestions)
        /\ ~allQuestionsAnswered(profilingQuestions, answers) => moreQuestionsShown >= 0


(***************************************************************************)
(* Claims about a board without submissions (specification SpecUnsaved).   *)
(***************************************************************************)
\* a company that has entered no data yet: no task has a submission
UnsavedServer == [e \in Elements |-> NoSubmission]
UnsavedUsers == {[role |-> "admin", id |-> 1], [role |-> "uploader", id |-> 2]}
\* categories and elements assigned to the uploader or to nobody
UnsavedMappings ==
    [category_assignments : [TaskCategories -> {NoUser, 2}],
     element_assignments : [Elements -> {NoUser, 2}]]

InitUnsaved ==
    /\ InitList
    /\ OthersUnmounted
    /\ hasUpdatePermission = TRUE
    /\ serverChecklist = FALSE
    /\ \E u \in UnsavedUsers : InitBoard(u)
    /\ server = UnsavedServer
    /\ serverAssignments \in UnsavedMappings

NextUnsaved ==
    \/ \E req \in BagToSet(inflight), ok \in BOOLEAN : fetchEventTasks(req, ok, Elements)
    \/ \E req \in BagToSet(inflight), ok \in BOOLEAN : fetchAssignments(req, ok)
    \/ \E u \in UnsavedUsers : userChange(u)
    \/ \E option \in AssignmentFilters : setAssignmentFilter(option)

SpecUnsaved == InitUnsaved /\ [][NextUnsaved]_vars

\* how often the task of element e is in the filtered list
TimesShown(e) ==
    Cardinality({i \in 1..Len(filteredEntries) : filteredEntries[i].element_id = e})

\* C29: with the assignment mapping loaded and the filters at their defaults,
\* the list of an uploader or meter manager holds every listed task whose
\* element is assigned to them exactly once, and no task twice.
C29_DedupRemovesOnlyDuplicates ==
    (user.role \in RestrictedRoles /\ assignments.loaded /\ ~loading /\ DefaultFilters)
    => \A e \in Elements :
          /\ TimesShown(e) <= 1
          /\ (assignments.element_assignments[e] = user.id /\ Listed(e))
                 => TimesShown(e) = 1


(***************************************************************************)
(* Claims about the assignment of a task (specification SpecAssign).       *)
(***************************************************************************)
AssignUsers == [role : Roles, id : {1}]
\* the lists GET /api/users/ may return
BackendUserLists == {CompanyUsers, {x \in CompanyUsers : x.role \in {"viewer", "admin"}}, {}}

InitAssign ==
    /\ InitList
    /\ OthersUnmounted
    /\ hasUpdatePermission = TRUE
    /\ serverChecklist = FALSE
    /\ \E u \in AssignUsers : InitBoard(u)
    /\ server = BoardServer
    /\ serverAssignments = NoAssignments

NextAssign ==
    \/ \E req \in BagToSet(inflight), ok \in BOOLEAN : fetchEventTasks(req, ok, Elements)
    \/ \E req \in BagToSet(inflight), ok \in BOOLEAN : fetchAssignments(req, ok)
    \/ \E e \in Elements, fetched \in BackendUserLists, ok \in BOOLEAN :
           handleOpenAssignModal(e, fetched, ok)
    \/ closeAssignModal
    \/ \E userId \in UserIds, ok \in BOOLEAN, refetched \in BOOLEAN :
           handleAssignElement(userId, ok, refetched)

SpecAssign == InitAssign /\ [][NextAssign]_vars

RolesOf(list) == {x.role : x \in list}

UserLists == [PanelUserIds -> {"active", "inactive"}]

InitAdmin ==
    /\ ListUnmounted
    /\ BoardUnmounted
    /\ showConfirmDialog = FALSE
    /\ confirmAction = NoAction
    /\ confirmUser = 0
    /\ confirmInput = ""
    /\ typedFor = 0
    /\ lastUserAction = NoRequest
    /\ users = NoUsers
    /\ serverUsers \in UserLists
    /\ ProfilingIdle
    /\ OneCompany

NextAdmin ==
    \/ \E ok \in BOOLEAN : loadUsers(ok)
    \/ \E u \in PanelUserIds, a \in ConfirmedActions : showConfirmation(u, a)
    \/ \E text \in TypedTexts : typeConfirmation(text)
    \/ cancelAction
    \/ \E ok \in BOOLEAN, reloaded \in BOOLEAN : confirmActionHandler(ok, reloaded)
    \/ \E u \in PanelUserIds, ok \in BOOLEAN, reloaded \in BOOLEAN :
           activateUser(u, ok, reloaded)

SpecAdmin == InitAdmin /\ [][NextAdmin]_vars

\* C30: a delete request is sent only from the dialog opened for the user it
\* names, after exactly DELETE_CONFIRMED was typed in that dialog; opening or
\* cancelling a dialog leaves it unconfirmed.
C30_DeleteNeedsTypedConfirmation ==
    [][/\ lastUserAction'.action = "delete" =>
              /\ showConfirmDialog
              /\ confirmUser = lastUserAction'.userId
              /\ confirmInput = "DELETE_CONFIRMED"
              /\ typedFor = confirmUser
       /\ (cancelAction \/ \E u \in PanelUserIds, a \in ConfirmedActions :
                                showConfirmation(u, a)) =>
              confirmAction'.userConfirmed # "true"]_vars

C30_Witness ==
    /\ lastUserAction = [userId |-> 1, action |-> "delete",
                         confirmation |-> "DELETE_CONFIRMED"]
    /\ DOMAIN serverUsers = {2}
    /\ DOMAIN users = {2}


(***************************************************************************)
(* Claims about the cadence of shared elements (specification SpecCadence).*)
(***************************************************************************)
FrameworkSet == {Frameworks[i] : i \in DOMAIN Frameworks}
SharedSet == {SharedElements[i] : i \in DOMAIN SharedElements}

InitCadence ==
    /\ ListUnmounted
    /\ BoardUnmounted
    /\ PanelUnmounted
    /\ frameworkElements \in [FrameworkSet -> [SharedSet -> Cadences \cup {"none"}]]
    /\ activeFrameworks = {"ESG"}
    /\ backendChecklist = <<>>
    /\ OneCompany

NextCadence ==
    \/ generate_checklist
    \/ \E f \in FrameworkSet : selectFramework(f)

SpecCadence == InitCadence /\ [][NextCadence]_vars

\* the frameworks among fs that require element e
Contributing(e, fs) == {f \in fs : frameworkElements[f][e] # "none"}

\* C22: in a generated checklist every element some active framework requires
\* is listed exactly once, and its entry carries the most frequent of the
\* cadences the contributing frameworks state (Monthly > Quarterly > Annually).
C22_MostFrequentCadence ==
    [][backendChecklist' # backendChecklist =>
          \A e \in SharedSet :
              LET fs == Contributing(e, activeFrameworks)
                  at == {i \in DOMAIN backendChecklist' : backendChecklist'[i].id = e}
              IN  /\ Cardinality(at) = IF fs = {} THEN 0 ELSE 1
                  /\ \A i \in at :
                        /\ backendChecklist'[i].cadence \in
                               {frameworkElements[f][e] : f \in fs}
                        /\ \A f \in fs :
                               cadenceRank(backendChecklist'[i].cadence)
                                   >= cadenceRank(frameworkElements[f][e])
                        /\ backendChecklist'[i].frameworks = fs]_vars

C22_Witness ==
    /\ activeFrameworks = {"ESG", "DST", "Green Key"}
    /\ frameworkElements["ESG"]["food_sourcing"] = "Quarterly"
    /\ frameworkElements["DST"]["food_sourcing"] = "Monthly"
    /\ frameworkElements["Green Key"]["food_sourcing"] = "Annually"
    /\ \E i \in DOMAIN backendChecklist :
          /\ backendChecklist[i].id = "food_sourcing"
          /\ backendChecklist[i].cadence = "Monthly"
          /\ backendChecklist[i].frameworks = {"ESG", "DST", "Green Key"}
    /\ Len(backendChecklist) = 2


(***************************************************************************)
(* Claims about a change of the selected company (specification SpecSwitch).*)
(***************************************************************************)
InitSwitch ==
    /\ InitList
    /\ PanelUnmounted
    /\ ProfilingIdle
    /\ companyId \in Companies
    /\ staleFetchStep = "none"
    /\ hasUpdatePermission = TRUE
    /\ serverChecklist = CompanyChecklist[companyId]
    /\ BoardUnmounted

\* every request is answered with what the backend holds for its company
NextSwitch ==
    \/ fetchData
    \/ \E ok \in BOOLEAN :
           fetchProfilingQuestions(IF ok THEN CompanyQuestions[companyId] ELSE <<>>)
    \/ \E ok \in BOOLEAN : fetchExistingAnswers(CompanyAnswers[companyId], ok)
    \/ \E ok \in BOOLEAN : checkChecklistExists(ok)
    \/ \E ok \in BOOLEAN :
           checkWizardCompletion(CompanyAnswers[companyId],
                                 CompanyQuestions[companyId], ok)
    \/ \E c \in Companies : companyChange(c)
    \/ \E ok \in BOOLEAN : staleProfilingQuestions(ok)
    \/ \E ok \in BOOLEAN : staleExistingAnswers(ok)
    \/ \E ok \in BOOLEAN : staleChecklistExists(ok)
    \/ \E ok \in BOOLEAN, listed \in BOOLEAN : staleWizardCompletion(ok, listed)

SpecSwitch == InitSwitch /\ [][NextSwitch]_vars

\* C26: once every fetch has completed, the questions, the answers and the
\* two checklist flags are those of the selected company (or still reset),
\* never those of the company selected before.
C26_StateOfSelectedCompany ==
    (fetchStep = "idle" /\ staleFetchStep = "none") =>
        /\ profilingQuestions \in {CompanyQuestions[companyId], <<>>}
        /\ answers \in {CompanyAnswers[companyId], EmptyMap}
        /\ checklistExists => CompanyChecklist[companyId]
        /\ showChecklist => CompanyChecklist[companyId]

====
